---------------------------- MODULE Spec2Model ----------------------------
(***************************************************************************)
(* Investments tracker: the valuation engine (utils/calculations.js), the  *)
(* type registry's displayFormat (models/InvestmentTypes.js), the          *)
(* performance ranker and the yearly / monthly interest attribution        *)
(* (services/notificationService.js), the maturity notifications of the    *)
(* same service, the investments' storage (utils/storage.js), and the      *)
(* screens that call them.                                                 *)
(*                                                                         *)
(* Conventions of the model                                                *)
(*  - An investment is a function from field names to values; a field the  *)
(*    record lacks is absent from its DOMAIN (JavaScript: undefined).      *)
(*  - A Date is a whole number of days since 1 January of BaseYear; the    *)
(*    wall clock is such a day number too.                                 *)
(*  - A JavaScript number is [nan |-> FALSE, v |-> i] with i an integer    *)
(*    amount of whole currency units, or NaN.  The engine's double         *)
(*    arithmetic is modelled by integer arithmetic that rounds down once   *)
(*    per formula; Math.pow is modelled in fixed point with four decimal   *)
(*    digits, compounding whole periods and interpolating linearly inside  *)
(*    the last, incomplete period.                                         *)
(*  - A percentage is kept in hundredths of a percent.                     *)
(***************************************************************************)
EXTENDS Integers, Sequences, FiniteSets, Bags, TLC

VARIABLES
    inv,            \* the investment record handed to the engine
    usdToInrRate,   \* the settings' exchange rate
    clock,          \* the wall clock, in days
    pc,             \* position of the caller (a card render, an evaluation)
    invested,       \* result of getInvestedAmount
    current,        \* result of getCurrentValue
    returns,        \* result of getReturns
    pct,            \* result of getReturnsPercentage
    readAt,         \* the clock value each of the four calls read
    prev,           \* the four results of the previous render of the card
    display,        \* result of the registry's displayFormat
    portfolio,      \* the list of investments handed to the analytics
    top,            \* getPerformanceHighlights().topPerformers (ids)
    bottom,         \* getPerformanceHighlights().bottomPerformers (ids)
    year,           \* the year selected on the reports screen
    yearly,         \* calculateYearlyReturnsComparison's amount for year
    monthly,        \* calculateMonthlyReturns' twelve amounts for year
    missing,        \* no list at all is handed to the analytics
    valuations,     \* the four numbers of every element of the list
    totals,         \* results of the calculateTotal* aggregates
    allocation,     \* result of calculatePortfolioAllocation
    threw,          \* the call ended in an exception
    storage,        \* AsyncStorage's list of investments
    scheduled,      \* the bag of notifications the device has scheduled
    tasks           \* the asynchronous calls in flight, each with its locals

inputVars == <<inv, usdToInrRate>>

analyticsVars == <<portfolio, top, bottom, year, yearly, monthly>>

engineVars == <<missing, valuations, totals, allocation, threw>>

deviceVars == <<storage, scheduled, tasks>>

vars == <<inv, usdToInrRate, clock, pc, invested, current, returns, pct, readAt,
          prev, display, portfolio, top, bottom, year, yearly, monthly,
          missing, valuations, totals, allocation, threw,
          storage, scheduled, tasks>>

-----------------------------------------------------------------------------
(* JavaScript numbers *)

NaN == [nan |-> TRUE, v |-> 0]

V(x) == [nan |-> FALSE, v |-> x]

JsSub(a, b) == IF a.nan \/ b.nan THEN NaN ELSE V(a.v - b.v)

JsAdd(a, b) == IF a.nan \/ b.nan THEN NaN ELSE V(a.v + b.v)

JsMul(a, b) == IF a.nan \/ b.nan THEN NaN ELSE V(a.v * b.v)

\* investment.f as a number operand: undefined converts to NaN
Field(i, f) == IF f \in DOMAIN i THEN V(i[f]) ELSE NaN

\* (investment.f || 0)
Num(i, f) == IF f \in DOMAIN i THEN i[f] ELSE 0

\* (investment.f || dflt).toLowerCase() for an option field
Opt(i, f, dflt) == IF f \in DOMAIN i THEN i[f] ELSE dflt

\* the day number that stands for a text that is no date: new Date(text) is
\* an Invalid Date, every comparison with it is false
InvalidDate == -100000

\* new Date(investment.f) is a valid date
HasDate(i, f) == f \in DOMAIN i /\ i[f] # InvalidDate

\* the elapsed time taken as it is, negative before the start
Unclamped(x) == x

Max0(x) == IF x > 0 THEN x ELSE 0

\* Math.round(days / 30.44)
MonthsRound(d) == (200 * d + 3044) \div 6088

\* Math.floor(days / 91.25), Math.floor(days / 182.5), Math.floor(days / 365.25)
QuartersFloor(d) == (4 * d) \div 365

HalfYearsFloor(d) == (2 * d) \div 365

YearsFloor(d) == (4 * d) \div 1461

\* today < maturity ? today : maturity
EndDate(now, maturity) == IF now < maturity THEN now ELSE maturity

RECURSIVE IntPow(_, _, _)
\* (bn/bd)^k at scale 10000, k a natural number
IntPow(bn, bd, k) == IF k <= 0 THEN 10000 ELSE (IntPow(bn, bd, k - 1) * bn) \div bd

\* Math.pow(bn/bd, en/ed) at scale 10000, for en/ed >= 0
Pow(bn, bd, en, ed) ==
    LET k    == en \div ed
        frS  == ((en % ed) * 10000) \div ed
        g    == ((bn - bd) * 10000) \div bd
        f    == IntPow(bn, bd, k)
    IN  f + (f * ((frS * g) \div 10000)) \div 10000

\* periods per year of a compounding frequency, quarterly by default
PeriodsPerYear(freq) ==
    CASE freq = "monthly"     -> 12
      [] freq = "quarterly"   -> 4
      [] freq \in {"halfyearly", "half-yearly", "semi-annually"} -> 2
      [] freq \in {"yearly", "annually"} -> 1
      [] OTHER                -> 4

-----------------------------------------------------------------------------
(* utils/calculations.js *)

Null == [isNull |-> TRUE]

TypeOf(i) == IF "type" \in DOMAIN i THEN i["type"] ELSE "undefined"

\* months of deposits made so far by a recurring deposit
RdMonthsElapsed(i, now) ==
    Max0(MonthsRound(EndDate(now, i["maturityDate"]) - i["startDate"]))

\* the default case lost: the record is valued as an OTHER investment
UnknownTypeFallsThrough(i) == V(Num(i, "currentValue"))

\* default: return 0
UnknownTypeValue(i) == V(0)

\* premiums paid so far by an insurance policy
InsPremiumsPaid(i, now) ==
    LET d    == EndDate(now, i["maturityDate"]) - i["startDate"]
        freq == Opt(i, "premiumFrequency", "monthly")
        n    == CASE freq = "monthly" -> Max0(MonthsRound(d))
                  [] freq = "quarterly" -> Max0(QuartersFloor(d))
                  [] freq \in {"half-yearly", "halfyearly"} -> Max0(HalfYearsFloor(d))
                  [] freq \in {"yearly", "annually"} -> Max0(YearsFloor(d))
                  [] OTHER -> Max0(MonthsRound(d))
    IN  Num(i, "premiumAmount") * n

\* the amount left in dollars
UsdUnconverted(amount, rate) == amount

\* ... * usdToInrRate: a dollar amount in rupees
UsdToInr(amount, rate) == amount * rate

GetInvestedAmount(i, rate, now) ==
    LET t == TypeOf(i) IN
    IF i = Null THEN V(0)
    ELSE CASE t = "PHYSICAL_GOLD" -> V(Num(i, "grams") * Num(i, "buyPrice"))
      [] t = "SGB" -> V(Num(i, "units") * Num(i, "issuePrice"))
      [] t \in {"EPF", "PPF", "NPS"} -> V(Num(i, "balance"))
      [] t = "FIXED_DEPOSIT" -> V(Num(i, "principal"))
      [] t \in {"RECURRING_DEPOSIT", "POST_OFFICE_RD"} ->
            IF HasDate(i, "startDate") /\ HasDate(i, "maturityDate")
            THEN V(Num(i, "monthlyDeposit") * RdMonthsElapsed(i, now))
            ELSE NaN
      [] t = "MUTUAL_FUND" -> V(Num(i, "units") * Num(i, "buyNav"))
      [] t = "STOCKS" -> V(Num(i, "quantity") * Num(i, "buyPrice"))
      [] t = "US_STOCKS" -> V(UsdToInr(Num(i, "quantity") * Num(i, "buyPrice"), rate))
      [] t = "RSU" -> V(UsdToInr(Num(i, "units") * Num(i, "vestingPrice"), rate))
      [] t = "ESPP" -> V(UsdToInr(Num(i, "shares") * Num(i, "purchasePrice"), rate))
      [] t = "REAL_ESTATE" -> V(Num(i, "purchasePrice"))
      [] t = "CRYPTOCURRENCY" -> V(UsdToInr(Num(i, "quantity") * Num(i, "buyPrice"), rate))
      [] t = "BONDS" -> V(Num(i, "faceValue"))
      [] t = "INSURANCE" ->
            IF HasDate(i, "startDate") /\ HasDate(i, "maturityDate")
            THEN V(InsPremiumsPaid(i, now))
            ELSE NaN
      [] t \in {"POST_OFFICE_SCSS", "POST_OFFICE_TD", "POST_OFFICE_KVP",
                "POST_OFFICE_NSC", "POST_OFFICE_MSSC"} -> V(Num(i, "principal"))
      [] t = "POST_OFFICE_SAVINGS" -> V(Num(i, "balance"))
      [] t = "POST_OFFICE_MIS" -> V(Num(i, "principal"))
      [] t = "OTHER" -> V(Num(i, "investedAmount"))
      [] OTHER -> UnknownTypeValue(i)


RECURSIVE EpfLoop(_, _, _, _, _, _)
\* the month-by-month loop: the contribution joins the running balance, the
\* month's interest (running balance * rate / 1200) joins totalInterest
EpfLoop(month, months, contribution, rate, runningBalance, interest1200) ==
    IF month >= months
    THEN runningBalance + interest1200 \div 1200
    ELSE EpfLoop(month + 1, months, contribution, rate,
                 runningBalance + contribution,
                 interest1200 + (runningBalance + contribution) * rate)

RECURSIVE EpfLoopCompounding(_, _, _, _, _)
\* the month's interest joins the running balance
EpfLoopCompounding(month, months, contribution, rate, runningBalance) ==
    IF month >= months
    THEN runningBalance
    ELSE EpfLoopCompounding(month + 1, months, contribution, rate,
             runningBalance + contribution
             + ((runningBalance + contribution) * rate) \div 1200)

EpfCurrentValueCompounding(i, now) ==
    LET lastUpdated == IF "lastUpdated" \in DOMAIN i THEN i["lastUpdated"] ELSE now
        months      == Max0(MonthsRound(now - lastUpdated))
    IN  EpfLoopCompounding(0, months, Num(i, "monthlyContribution"),
                           Num(i, "interestRate"), Num(i, "balance"))

EpfCurrentValue(i, now) ==
    LET lastUpdated == IF "lastUpdated" \in DOMAIN i THEN i["lastUpdated"] ELSE now
        months      == Max0(MonthsRound(now - lastUpdated))
    IN  IF months = 0
        THEN Num(i, "balance")
        ELSE EpfLoop(0, months, Num(i, "monthlyContribution"),
                     Num(i, "interestRate"), Num(i, "balance"), 0)

\* principal * (1 + rate / (100 n)) ^ (n * years), years = days / 365.25
Compound(principal, rate, n, days) ==
    (principal * Pow(100 * n + rate, 100 * n, n * 4 * days, 1461)) \div 10000

FdCurrentValue(i, now) ==
    LET days == Max0(EndDate(now, i["maturityDate"]) - i["startDate"])
        freq == Opt(i, "compoundingFrequency", "quarterly")
        p    == Num(i, "principal")
        r    == Num(i, "interestRate")
    IN  IF freq \in {"simple", "simple interest"}
        THEN p + (p * r * 4 * days) \div 146100
        ELSE Compound(p, r, PeriodsPerYear(freq), days)

\* R * [(1 + i)^q - 1] / [1 - (1 + i)^(-1/3)], i = rate / 400, q = months / 3
RdCurrentValue(i, now) ==
    LET months == RdMonthsElapsed(i, now)
        m      == Num(i, "monthlyDeposit")
        r      == Num(i, "interestRate")
        numerator   == Pow(400 + r, 400, months, 3) - 10000
        denominator == 10000 - 100000000 \div Pow(400 + r, 400, 1, 3)
    IN  IF months = 0 THEN 0
        ELSE IF r = 0 THEN m * months
        ELSE (m * numerator) \div denominator

InsCurrentValue(i, now) ==
    LET policyType == Opt(i, "policyType", "term") IN
    IF policyType \in {"endowment", "moneyback"}
    THEN LET sumAssured == IF Num(i, "sumAssured") # 0 THEN Num(i, "sumAssured")
                           ELSE Num(i, "coverageAmount")
             yearsCompleted == YearsFloor(now - i["startDate"])
             accumulatedBonus ==
                 (Num(i, "bonusRate") * sumAssured * yearsCompleted) \div 1000
             matured == HasDate(i, "maturityDate") /\ now >= i["maturityDate"]
         IN  IF ~HasDate(i, "startDate") THEN NaN
             ELSE V(sumAssured + accumulatedBonus
                    + (IF matured THEN Num(i, "finalBonus") ELSE 0))
    ELSE V(Num(i, "coverageAmount"))

ScssCurrentValue(i, now) ==
    LET days == Max0(EndDate(now, i["maturityDate"]) - i["startDate"])
        p    == Num(i, "principal")
    IN  p + (p * Num(i, "interestRate") * 4 * days) \div 146100

MisCurrentValue(i, now) ==
    LET months == Max0(MonthsRound(EndDate(now, i["maturityDate"]) - i["startDate"]))
    IN  Num(i, "principal") + Num(i, "monthlyIncome") * months

\* POST_OFFICE_KVP: annual compounding at interestRate, A = P * (1 + r)^t
KvpCurrentValue(i, now) ==
    LET days == Max0(EndDate(now, i["maturityDate"]) - i["purchaseDate"])
    IN  Compound(Num(i, "principal"), Num(i, "interestRate"), 1, days)

\* the certificate valued as the registry values a KVP: by the date
NscCurrentValueByDate(i, now) ==
    IF now >= i["maturityDate"] THEN Num(i, "maturityAmount")
    ELSE IF now <= i["purchaseDate"] THEN Num(i, "principal")
    ELSE Num(i, "principal")
         + ((Num(i, "maturityAmount") - Num(i, "principal")) * (now - i["purchaseDate"]))
           \div (i["maturityDate"] - i["purchaseDate"])

\* POST_OFFICE_NSC: the maturity amount, whatever the date
NscCurrentValue(i, now) == Num(i, "maturityAmount")

\* POST_OFFICE_MSSC and POST_OFFICE_TD, the start being depositDate or startDate
TdCurrentValue(i, startField, now) ==
    LET days == Max0(EndDate(now, i["maturityDate"]) - i[startField])
        freq == Opt(i, "compoundingFrequency", "quarterly")
    IN  Compound(Num(i, "principal"), Num(i, "interestRate"),
                 PeriodsPerYear(freq), days)

\* the value of a formula that needs both dates
Dated(i, startField, value) ==
    IF HasDate(i, startField) /\ HasDate(i, "maturityDate") THEN V(value) ELSE NaN

GetCurrentValue(i, rate, now) ==
    LET t == TypeOf(i) IN
    IF i = Null THEN V(0)
    ELSE CASE t = "PHYSICAL_GOLD" -> V(Num(i, "grams") * Num(i, "currentPrice"))
      [] t = "SGB" -> V(Num(i, "units") * Num(i, "currentPrice"))
      [] t \in {"EPF", "PPF", "NPS"} -> V(EpfCurrentValue(i, now))
      [] t = "FIXED_DEPOSIT" -> Dated(i, "startDate", FdCurrentValue(i, now))
      [] t \in {"RECURRING_DEPOSIT", "POST_OFFICE_RD"} ->
            Dated(i, "startDate", RdCurrentValue(i, now))
      [] t = "MUTUAL_FUND" -> V(Num(i, "units") * Num(i, "currentNav"))
      [] t = "STOCKS" -> V(Num(i, "quantity") * Num(i, "currentPrice"))
      [] t = "US_STOCKS" -> V(UsdToInr(Num(i, "quantity") * Num(i, "currentPrice"), rate))
      [] t = "RSU" -> V(UsdToInr(Num(i, "units") * Num(i, "currentPrice"), rate))
      [] t = "ESPP" -> V(UsdToInr(Num(i, "shares") * Num(i, "currentPrice"), rate))
      [] t = "REAL_ESTATE" -> V(Num(i, "currentValue"))
      [] t = "CRYPTOCURRENCY" -> V(UsdToInr(Num(i, "quantity") * Num(i, "currentPrice"), rate))
      [] t = "BONDS" -> V(Num(i, "currentValue"))
      [] t = "INSURANCE" -> InsCurrentValue(i, now)
      [] t = "POST_OFFICE_SCSS" -> Dated(i, "startDate", ScssCurrentValue(i, now))
      [] t = "POST_OFFICE_SAVINGS" -> V(Num(i, "balance"))
      [] t = "POST_OFFICE_MIS" -> Dated(i, "startDate", MisCurrentValue(i, now))
      [] t = "POST_OFFICE_KVP" -> Dated(i, "purchaseDate", KvpCurrentValue(i, now))
      [] t = "POST_OFFICE_NSC" -> V(NscCurrentValue(i, now))
      [] t = "POST_OFFICE_MSSC" ->
            Dated(i, "depositDate", TdCurrentValue(i, "depositDate", now))
      [] t = "POST_OFFICE_TD" ->
            Dated(i, "startDate", TdCurrentValue(i, "startDate", now))
      [] t = "OTHER" -> V(Num(i, "currentValue"))
      [] OTHER -> UnknownTypeValue(i)

\* getReturns reads the engine twice, one call after the other
GetReturns(i, rate, now) ==
    JsSub(GetCurrentValue(i, rate, now), GetInvestedAmount(i, rate, now))

\* the division without its guard: 0 / 0 and x / 0 are not numbers to show
GetReturnsPercentageUnguarded(i, rate, now) ==
    LET a == GetInvestedAmount(i, rate, now)
        r == GetReturns(i, rate, now)
    IN  IF a.nan \/ r.nan \/ a.v = 0 THEN NaN
        ELSE V((r.v * 10000) \div a.v)

\* (returns / invested) * 100, in hundredths of a percent; 0 when invested === 0
GetReturnsPercentage(i, rate, now) ==
    LET a == GetInvestedAmount(i, rate, now)
        r == GetReturns(i, rate, now)
    IN  IF ~a.nan /\ a.v = 0 THEN V(0)
        ELSE IF a.nan \/ r.nan THEN NaN
        ELSE V((r.v * 10000) \div a.v)

-----------------------------------------------------------------------------
(* The inputs of the model *)

\* the wall clock is read at multiples of DayStep days
DayStep == 146

\* and the clock stops after MaxTicks steps
MaxTicks == 6

Instants == {k * DayStep : k \in 0..MaxTicks}

Rates == {82, 83}

KnownTypes ==
    {"PHYSICAL_GOLD", "SGB", "EPF", "PPF", "NPS", "FIXED_DEPOSIT",
     "RECURRING_DEPOSIT", "MUTUAL_FUND", "STOCKS", "US_STOCKS", "RSU", "ESPP",
     "REAL_ESTATE", "CRYPTOCURRENCY", "BONDS", "INSURANCE", "POST_OFFICE_RD",
     "POST_OFFICE_SCSS", "POST_OFFICE_SAVINGS", "POST_OFFICE_MIS",
     "POST_OFFICE_KVP", "POST_OFFICE_TD", "POST_OFFICE_NSC",
     "POST_OFFICE_MSSC", "OTHER"}

DateFields ==
    {"startDate", "maturityDate", "purchaseDate", "issueDate", "depositDate",
     "openingDate", "lastUpdated", "vestingDate"}

TextFields ==
    {"type", "compoundingFrequency", "interestPayoutType", "policyType",
     "premiumFrequency"}

\* the quantity, rate and monetary fields of a record
NumericFields(i) == DOMAIN i \ (DateFields \cup TextFields)

\* the record without the fields S
Without(i, S) == [f \in DOMAIN i \ S |-> i[f]]

Gold == [type |-> "PHYSICAL_GOLD", grams |-> 10, buyPrice |-> 500, currentPrice |-> 600]

Sgb == [type |-> "SGB", units |-> 5, issuePrice |-> 500, currentPrice |-> 550,
        interestRate |-> 2, purchaseDate |-> 0, maturityDate |-> 730]

Epf == [type |-> "EPF", balance |-> 60000, monthlyContribution |-> 1000,
        interestRate |-> 12, lastUpdated |-> 0, startDate |-> 0]

EpfIdle == [type |-> "EPF", balance |-> 60000, monthlyContribution |-> 0,
            interestRate |-> 12, lastUpdated |-> 0, startDate |-> 0]

Ppf == [type |-> "PPF", balance |-> 50000, yearlyContribution |-> 12000,
        interestRate |-> 7, startDate |-> 0, maturityDate |-> 5479]

Nps == [type |-> "NPS", balance |-> 40000, monthlyContribution |-> 0,
        interestRate |-> 9, lastUpdated |-> 146, startDate |-> 0]

Fd == [type |-> "FIXED_DEPOSIT", principal |-> 10000, interestRate |-> 8,
       compoundingFrequency |-> "quarterly", startDate |-> 0, maturityDate |-> 438]

FdSimple == [type |-> "FIXED_DEPOSIT", principal |-> 10000, interestRate |-> 8,
             compoundingFrequency |-> "simple",
             interestPayoutType |-> "non-cumulative",
             startDate |-> 334, maturityDate |-> 699]

Rd == [type |-> "RECURRING_DEPOSIT", monthlyDeposit |-> 1000, interestRate |-> 8,
       tenure |-> 24, startDate |-> 0, maturityDate |-> 730]

MutualFund == [type |-> "MUTUAL_FUND", units |-> 100, buyNav |-> 20, currentNav |-> 25]

Stocks == [type |-> "STOCKS", quantity |-> 10, buyPrice |-> 100, currentPrice |-> 90]

UsStocks == [type |-> "US_STOCKS", quantity |-> 2, buyPrice |-> 10, currentPrice |-> 12]

Rsu == [type |-> "RSU", units |-> 3, vestingPrice |-> 10, currentPrice |-> 15]

Espp == [type |-> "ESPP", shares |-> 4, purchasePrice |-> 10, currentPrice |-> 9]

RealEstate == [type |-> "REAL_ESTATE", purchasePrice |-> 50000, currentValue |-> 65000]

Crypto == [type |-> "CRYPTOCURRENCY", quantity |-> 1, buyPrice |-> 300, currentPrice |-> 200]

Bond == [type |-> "BONDS", faceValue |-> 1000, couponRate |-> 7, currentValue |-> 1050,
         issueDate |-> 0, maturityDate |-> 730]

Endowment == [type |-> "INSURANCE", policyType |-> "endowment", premiumAmount |-> 1000,
              premiumFrequency |-> "yearly", coverageAmount |-> 50000,
              sumAssured |-> 100000, bonusRate |-> 40, finalBonus |-> 5000,
              startDate |-> 0, maturityDate |-> 438]

TermPolicy == [type |-> "INSURANCE", premiumAmount |-> 500, coverageAmount |-> 50000,
               startDate |-> 0, maturityDate |-> 730]

PoRd == [type |-> "POST_OFFICE_RD", monthlyDeposit |-> 500, interestRate |-> 0,
         tenure |-> 12, startDate |-> 146, maturityDate |-> 511]

Scss == [type |-> "POST_OFFICE_SCSS", principal |-> 10000, interestRate |-> 8,
         startDate |-> 0, maturityDate |-> 438]

Savings == [type |-> "POST_OFFICE_SAVINGS", balance |-> 8000, interestRate |-> 4,
            openingDate |-> 0, lastUpdated |-> 730]

Mis == [type |-> "POST_OFFICE_MIS", principal |-> 10000, interestRate |-> 7,
        monthlyIncome |-> 60, startDate |-> 0, maturityDate |-> 438]

Kvp == [type |-> "POST_OFFICE_KVP", principal |-> 10000, interestRate |-> 7,
        maturityAmount |-> 20000, purchaseDate |-> 146, maturityDate |-> 584]

Td == [type |-> "POST_OFFICE_TD", principal |-> 10000, interestRate |-> 7,
       tenure |-> 1, compoundingFrequency |-> "yearly",
       startDate |-> 0, maturityDate |-> 365]

Nsc == [type |-> "POST_OFFICE_NSC", principal |-> 10000, interestRate |-> 7,
        maturityAmount |-> 14000, purchaseDate |-> 146, maturityDate |-> 584]

Mssc == [type |-> "POST_OFFICE_MSSC", principal |-> 10000, interestRate |-> 7,
         depositDate |-> 0, maturityDate |-> 730]

Other == [type |-> "OTHER", investedAmount |-> 700, currentValue |-> 650]

\* a type that is not in the registry, and a record with no type at all
Unknown == [type |-> "GOLD_ETF", investedAmount |-> 700, currentValue |-> 650,
            principal |-> 10000, balance |-> 100]

Untyped == [investedAmount |-> 700, currentValue |-> 650]

Samples ==
    {Gold, Sgb, Epf, EpfIdle, Ppf, Nps, Fd, FdSimple, Rd, MutualFund, Stocks,
     UsStocks, Rsu, Espp, RealEstate, Crypto, Bond, Endowment, TermPolicy, PoRd,
     Scss, Savings, Mis, Kvp, Td, Nsc, Mssc, Other, Unknown, Untyped}

\* every sample, with every subset of its numeric fields absent
ValueInvestments ==
    UNION {{Without(s, S) : S \in SUBSET NumericFields(s)} : s \in Samples}

\* the records shown on a portfolio card while the clock runs
CardInvestments ==
    {Gold, EpfIdle, Fd, Rd, UsStocks, Bond, Endowment, Scss, Mis, Kvp, Nsc,
     Other, Unknown}

-----------------------------------------------------------------------------
(* models/InvestmentTypes.js: displayFormat *)

\* the result of arithmetic on the fields fs: NaN as soon as one is undefined
Arith(i, fs, value) == IF fs \subseteq DOMAIN i THEN V(value) ELSE NaN

\* { invested, current, returns } of a summary
Summary(a, c) == [invested |-> a, current |-> c, returns |-> JsSub(c, a)]

\* quantity * buy price and quantity * current price, in the field's own currency
PricedSummary(i, qty, buy, cur) ==
    Summary(JsMul(Field(i, qty), Field(i, buy)), JsMul(Field(i, qty), Field(i, cur)))

\* POST_OFFICE_KVP.displayFormat: principal before the purchase, the maturity
\* amount from maturity on, and the linear interpolation in between
KvpDisplayValue(i, now) ==
    LET start    == i["purchaseDate"]
        maturity == i["maturityDate"]
    IN  IF HasDate(i, "maturityDate") /\ now >= maturity
        THEN Field(i, "maturityAmount")
        ELSE IF HasDate(i, "purchaseDate") /\ now <= start
        THEN Field(i, "principal")
        ELSE Arith(i, {"principal", "maturityAmount", "purchaseDate", "maturityDate"},
                   i["principal"]
                   + ((i["maturityAmount"] - i["principal"]) * (now - start))
                     \div (maturity - start))

DisplayFormat(i, now) ==
    LET t == TypeOf(i) IN
    CASE t = "PHYSICAL_GOLD" -> PricedSummary(i, "grams", "buyPrice", "currentPrice")
      [] t = "SGB" -> PricedSummary(i, "units", "issuePrice", "currentPrice")
      [] t \in {"EPF", "PPF", "NPS", "POST_OFFICE_SAVINGS"} ->
            [invested |-> Field(i, "balance"), current |-> Field(i, "balance"),
             returns |-> V(0)]
      [] t = "FIXED_DEPOSIT" ->
            [invested |-> Field(i, "principal"),
             current |-> Arith(i, {"principal", "interestRate", "startDate", "maturityDate"},
                 i["principal"] + (i["principal"] * i["interestRate"]
                     * MonthsRound(i["maturityDate"] - i["startDate"])) \div 1200),
             returns |-> Arith(i, {"principal", "interestRate", "startDate", "maturityDate"},
                 (i["principal"] * i["interestRate"]
                     * MonthsRound(i["maturityDate"] - i["startDate"])) \div 1200)]
      [] t = "RECURRING_DEPOSIT" ->
            Summary(JsMul(Field(i, "monthlyDeposit"), Field(i, "tenure")),
                    Arith(i, {"monthlyDeposit", "tenure", "interestRate"},
                        (i["monthlyDeposit"] * i["tenure"] * (100 + i["interestRate"]))
                        \div 100))
      [] t = "MUTUAL_FUND" -> PricedSummary(i, "units", "buyNav", "currentNav")
      [] t \in {"STOCKS", "US_STOCKS", "CRYPTOCURRENCY"} ->
            PricedSummary(i, "quantity", "buyPrice", "currentPrice")
      [] t = "RSU" -> PricedSummary(i, "units", "vestingPrice", "currentPrice")
      [] t = "ESPP" -> PricedSummary(i, "shares", "purchasePrice", "currentPrice")
      [] t = "REAL_ESTATE" ->
            Summary(Field(i, "purchasePrice"), Field(i, "currentValue"))
      [] t = "BONDS" -> Summary(Field(i, "faceValue"), Field(i, "currentValue"))
      [] t = "INSURANCE" ->
            [invested |-> Field(i, "premiumAmount"),
             current |-> Field(i, "premiumAmount"), returns |-> V(0)]
      [] t = "POST_OFFICE_RD" ->
            LET interest == Arith(i, {"monthlyDeposit", "tenure", "interestRate"},
                    (i["monthlyDeposit"] * i["tenure"] * (i["tenure"] + 1)
                        * (2 * i["tenure"] + 1) * i["interestRate"]) \div 7200)
                deposited == JsMul(Field(i, "monthlyDeposit"), Field(i, "tenure"))
            IN  [invested |-> deposited, current |-> JsAdd(deposited, interest),
                 returns |-> interest]
      [] t = "POST_OFFICE_SCSS" ->
            Summary(Field(i, "principal"),
                    Arith(i, {"principal", "interestRate", "startDate", "maturityDate"},
                        i["principal"] + (i["principal"] * i["interestRate"] * 4
                            * (i["maturityDate"] - i["startDate"])) \div 146100))
      [] t = "POST_OFFICE_MIS" ->
            LET income == Arith(i, {"monthlyIncome", "startDate", "maturityDate"},
                    i["monthlyIncome"] * MonthsRound(i["maturityDate"] - i["startDate"]))
            IN  [invested |-> Field(i, "principal"),
                 current |-> JsAdd(Field(i, "principal"), income),
                 returns |-> income]
      [] t = "POST_OFFICE_KVP" ->
            Summary(Field(i, "principal"), KvpDisplayValue(i, now))
      [] t = "POST_OFFICE_TD" ->
            Summary(Field(i, "principal"),
                    Arith(i, {"principal", "interestRate", "tenure"},
                        (i["principal"]
                            * Pow(400 + i["interestRate"], 400, 4 * i["tenure"], 1))
                        \div 10000))
      [] t = "POST_OFFICE_NSC" ->
            Summary(Field(i, "principal"), Field(i, "maturityAmount"))
      [] t = "POST_OFFICE_MSSC" ->
            Summary(Field(i, "principal"),
                    Arith(i, {"principal", "interestRate", "depositDate", "maturityDate"},
                        Compound(i["principal"], i["interestRate"], 4,
                                 i["maturityDate"] - i["depositDate"])))
      [] t = "OTHER" -> Summary(Field(i, "investedAmount"), Field(i, "currentValue"))

\* formatInvestmentDisplay: null for a type the registry does not hold
FormatInvestmentDisplay(i, now) ==
    IF TypeOf(i) \notin KnownTypes THEN Null ELSE DisplayFormat(i, now)

-----------------------------------------------------------------------------
(* The callers *)

NoReads == [invested |-> 0, current |-> 0, returns |-> 0, pct |-> 0]

NoResults == [done |-> FALSE, invested |-> V(0), current |-> V(0),
              returns |-> V(0), pct |-> V(0), at |-> NoReads]

\* the state of the analytics, which the valuation callers leave alone
AnalyticsIdle ==
    /\ portfolio = <<>>
    /\ top = <<>>
    /\ bottom = <<>>
    /\ year = 0
    /\ yearly = V(0)
    /\ monthly = <<>>

NoTotals == [invested |-> V(0), current |-> V(0), returns |-> V(0),
             percentage |-> V(0)]

\* no aggregate has been called
EngineIdle ==
    /\ missing = FALSE
    /\ valuations = <<>>
    /\ totals = NoTotals
    /\ allocation = <<>>
    /\ threw = FALSE

\* nothing is stored or scheduled and no asynchronous call is in flight
DeviceIdle ==
    /\ storage = <<>>
    /\ scheduled = EmptyBag
    /\ tasks = <<>>

ValuationIdle ==
    /\ invested = V(0)
    /\ current = V(0)
    /\ returns = V(0)
    /\ pct = V(0)
    /\ readAt = NoReads
    /\ prev = NoResults
    /\ display = Null

\* The wall clock advances, whatever the program is doing
Tick ==
    /\ clock < MaxTicks * DayStep
    /\ clock' = clock + DayStep
    /\ UNCHANGED <<inputVars, deviceVars, engineVars, pc, invested, current, returns, pct, readAt, prev,
                   display, analyticsVars>>

(* screens/PortfolioScreen.js: InvestmentCard, one engine call per step *)

CardInit ==
    /\ inv \in CardInvestments
    /\ usdToInrRate = 83
    /\ clock = 0
    /\ pc = "render"
    /\ ValuationIdle
    /\ DeviceIdle
    /\ EngineIdle
    /\ AnalyticsIdle

CardInvested ==
    /\ pc = "render"
    /\ invested' = GetInvestedAmount(inv, usdToInrRate, clock)
    /\ readAt' = [readAt EXCEPT !.invested = clock]
    /\ pc' = "invested"
    /\ UNCHANGED <<inputVars, deviceVars, engineVars, clock, current, returns, pct, prev, display,
                   analyticsVars>>

CardCurrent ==
    /\ pc = "invested"
    /\ current' = GetCurrentValue(inv, usdToInrRate, clock)
    /\ readAt' = [readAt EXCEPT !.current = clock]
    /\ pc' = "current"
    /\ UNCHANGED <<inputVars, deviceVars, engineVars, clock, invested, returns, pct, prev, display,
                   analyticsVars>>

CardReturns ==
    /\ pc = "current"
    /\ returns' = GetReturns(inv, usdToInrRate, clock)
    /\ readAt' = [readAt EXCEPT !.returns = clock]
    /\ pc' = "returns"
    /\ UNCHANGED <<inputVars, deviceVars, engineVars, clock, invested, current, pct, prev, display,
                   analyticsVars>>

CardPercentage ==
    /\ pc = "returns"
    /\ pct' = GetReturnsPercentage(inv, usdToInrRate, clock)
    /\ readAt' = [readAt EXCEPT !.pct = clock]
    /\ pc' = "shown"
    /\ UNCHANGED <<inputVars, deviceVars, engineVars, clock, invested, current, returns, prev, display,
                   analyticsVars>>

\* the card is rendered again with the same props; the previous render's
\* numbers are what the user has seen
CardRerender ==
    /\ pc = "shown"
    /\ ~prev.done
    /\ prev' = [done |-> TRUE, invested |-> invested, current |-> current,
                returns |-> returns, pct |-> pct, at |-> readAt]
    /\ pc' = "render"
    /\ UNCHANGED <<inputVars, deviceVars, engineVars, clock, invested, current, returns, pct, readAt,
                   display, analyticsVars>>

CardNext ==
    \/ Tick
    \/ CardInvested
    \/ CardCurrent
    \/ CardReturns
    \/ CardPercentage
    \/ CardRerender

CardSpec == CardInit /\ [][CardNext]_vars

(* One valuation of a record at one instant: the four engine functions and *)
(* the registry's summary, all reading the same clock value                *)

ValueInit ==
    /\ inv \in ValueInvestments
    /\ usdToInrRate \in Rates
    /\ clock \in Instants
    /\ pc = "input"
    /\ ValuationIdle
    /\ DeviceIdle
    /\ EngineIdle
    /\ AnalyticsIdle

Evaluate ==
    /\ pc = "input"
    /\ invested' = GetInvestedAmount(inv, usdToInrRate, clock)
    /\ current' = GetCurrentValue(inv, usdToInrRate, clock)
    /\ returns' = GetReturns(inv, usdToInrRate, clock)
    /\ pct' = GetReturnsPercentage(inv, usdToInrRate, clock)
    /\ readAt' = [invested |-> clock, current |-> clock, returns |-> clock,
                  pct |-> clock]
    /\ pc' = "valued"
    /\ UNCHANGED <<inputVars, deviceVars, engineVars, clock, prev, display, analyticsVars>>

Summarize ==
    /\ pc = "valued"
    /\ display' = FormatInvestmentDisplay(inv, clock)
    /\ pc' = "summarized"
    /\ UNCHANGED <<inputVars, deviceVars, engineVars, clock, invested, current, returns, pct, readAt, prev,
                   analyticsVars>>

ValueNext ==
    \/ Evaluate
    \/ Summarize

ValueSpec == ValueInit /\ [][ValueNext]_vars

-----------------------------------------------------------------------------
(* services/notificationService.js: getPerformanceHighlights *)

MaxPortfolio == 5

\* the records the user can add to the portfolio; Unknown has nothing invested
RankPool == {MutualFund, Stocks, Other, Unknown}

\* the record as storage keeps it, under its id
Stored(i, id) == [f \in DOMAIN i \cup {"id"} |-> IF f = "id" THEN id ELSE i[f]]

\* the id of the record an item holds; an element without one holds none
IdOf(i) == IF "id" \in DOMAIN i THEN i["id"] ELSE 0

\* investments.map(...): the four numbers of every record
WithReturns(investments, rate, now) ==
    [k \in 1..Len(investments) |->
        [id                |-> IdOf(investments[k]),
         invested          |-> GetInvestedAmount(investments[k], rate, now),
         current           |-> GetCurrentValue(investments[k], rate, now),
         returns           |-> GetReturns(investments[k], rate, now),
         returnsPercentage |-> GetReturnsPercentage(investments[k], rate, now)]]

\* .filter(item => item.invested > 0); NaN > 0 is false
Eligible(items) ==
    SelectSeq(items, LAMBDA item : ~item.invested.nan /\ item.invested.v > 0)

RECURSIVE InsertByReturns(_, _)
\* the item goes behind every item whose percentage is not smaller
InsertByReturns(item, sorted) ==
    IF sorted = <<>> THEN <<item>>
    ELSE IF Head(sorted).returnsPercentage.v >= item.returnsPercentage.v
         THEN <<Head(sorted)>> \o InsertByReturns(item, Tail(sorted))
         ELSE <<item>> \o sorted

RECURSIVE SortByReturns(_)
\* .sort((a, b) => b.returnsPercentage - a.returnsPercentage), a stable sort
SortByReturns(items) ==
    IF items = <<>> THEN <<>>
    ELSE InsertByReturns(items[Len(items)],
                         SortByReturns(SubSeq(items, 1, Len(items) - 1)))

\* Array.prototype.slice(from, to) with 0-based, non-negative bounds
Slice(s, from, to) ==
    SubSeq(s, from + 1, IF to < Len(s) THEN to ELSE Len(s))

\* the slice left in the order of the sort
Unreversed(s) == s

Reverse(s) == [k \in 1..Len(s) |-> s[Len(s) + 1 - k]]

NoHighlights == [topPerformers |-> <<>>, bottomPerformers |-> <<>>]

GetPerformanceHighlights(investments, rate, now) ==
    IF Len(investments) = 0 THEN NoHighlights
    ELSE LET investmentsWithReturns == Eligible(WithReturns(investments, rate, now))
             sorted == SortByReturns(investmentsWithReturns)
         IN  IF Len(investmentsWithReturns) = 0 THEN NoHighlights
             ELSE IF Len(sorted) < 4
             THEN [topPerformers    |-> Slice(sorted, 0, 3),
                   bottomPerformers |-> <<>>]
             ELSE [topPerformers    |-> Slice(sorted, 0, 3),
                   bottomPerformers |-> Reverse(Slice(sorted, Len(sorted) - 3,
                                                      Len(sorted)))]

-----------------------------------------------------------------------------
(* services/notificationService.js: the yearly and the monthly attribution *)
(* Year y is the y-th calendar year from the epoch of the day numbers, and  *)
(* none of the years modelled is a leap year.                               *)

MaxYear == 2

Years == 0..MaxYear

\* new Date(year, 0, 1) and new Date(year, 11, 31)
YearStart(y) == 365 * y

YearEnd(y) == 365 * y + 364

\* the day of the year on which month m = 1..12 starts; 13 is the next January
MonthOffset(m) == <<0, 31, 59, 90, 120, 151, 181, 212, 243, 273, 304, 334, 365>>[m]

\* new Date(year, month, 1) and new Date(year, month + 1, 0), months from 1
MonthStart(y, m) == 365 * y + MonthOffset(m)

MonthEnd(y, m) == 365 * y + MonthOffset(m + 1) - 1

\* new Date().getFullYear() and new Date().getMonth() + 1
FullYear(now) == now \div 365

MonthOf(now) == CHOOSE m \in 1..12 :
                    MonthOffset(m) <= now % 365 /\ now % 365 < MonthOffset(m + 1)

InterestBearing ==
    {"EPF", "PPF", "FIXED_DEPOSIT", "RECURRING_DEPOSIT", "NPS", "POST_OFFICE_SCSS",
     "POST_OFFICE_SAVINGS", "POST_OFFICE_MIS", "POST_OFFICE_KVP", "POST_OFFICE_TD",
     "POST_OFFICE_NSC", "POST_OFFICE_RD", "POST_OFFICE_MSSC", "BONDS", "SGB"}

\* the fields whose dates open and close the window of a type
StartField(i) ==
    CASE TypeOf(i) = "POST_OFFICE_SAVINGS" -> "openingDate"
      [] TypeOf(i) \in {"POST_OFFICE_KVP", "POST_OFFICE_NSC", "SGB"} -> "purchaseDate"
      [] TypeOf(i) = "BONDS" -> "issueDate"
      [] TypeOf(i) = "POST_OFFICE_MSSC" -> "depositDate"
      [] OTHER -> "startDate"

EndField(i) ==
    IF TypeOf(i) \in {"EPF", "PPF", "NPS", "POST_OFFICE_SAVINGS"}
    THEN "lastUpdated" ELSE "maturityDate"

\* a field that is present and not 0
Truthy(i, f) == f \in DOMAIN i /\ i[f] # 0

\* the window test lost: every dated record counts in every window
ActiveWhenDated(i, windowStart, windowEnd) ==
    /\ TypeOf(i) \in InterestBearing
    /\ HasDate(i, StartField(i))
    /\ HasDate(i, EndField(i))
    /\ TypeOf(i) \in {"POST_OFFICE_KVP", "POST_OFFICE_NSC"}
          => Truthy(i, "maturityAmount") /\ Truthy(i, "principal")

\* a date that is absent or invalid leaves the window open on its side
ActiveInOpenWindow(i, windowStart, windowEnd) ==
    /\ TypeOf(i) \in InterestBearing
    /\ TypeOf(i) \in {"POST_OFFICE_KVP", "POST_OFFICE_NSC"}
          => Truthy(i, "maturityAmount") /\ Truthy(i, "principal")
    /\ HasDate(i, StartField(i)) => i[StartField(i)] <= windowEnd
    /\ HasDate(i, EndField(i)) => i[EndField(i)] >= windowStart

\* if (a && b [&& ...]) { if (start <= windowEnd && end >= windowStart) ... }
ActiveIn(i, windowStart, windowEnd) ==
    /\ TypeOf(i) \in InterestBearing
    /\ HasDate(i, StartField(i))
    /\ HasDate(i, EndField(i))
    /\ TypeOf(i) \in {"POST_OFFICE_KVP", "POST_OFFICE_NSC"}
          => Truthy(i, "maturityAmount") /\ Truthy(i, "principal")
    /\ i[StartField(i)] <= windowEnd
    /\ i[EndField(i)] >= windowStart

\* the switch over freq in the attribution: yearly unless stated
AttributionPeriods(freq) ==
    CASE freq = "monthly"   -> 12
      [] freq = "quarterly" -> 4
      [] freq \in {"halfyearly", "half-yearly", "semi-annually"} -> 2
      [] OTHER -> 1

\* balanceAtYearEnd - balanceAtYearStart
CompoundedInYear(principal, rate, n, start, yearStart) ==
    LET days == Max0(yearStart - start)
    IN  (principal * Pow(100 * n + rate, 100 * n, n * (4 * days + 1461), 1461))
            \div 10000
        - (principal * Pow(100 * n + rate, 100 * n, n * 4 * days, 1461)) \div 10000

\* yearlyInterest of one record that is active in the year
YearlyInterest(i, yearStart, yearEnd) ==
    LET t    == TypeOf(i)
        rate == Num(i, "interestRate")
    IN  CASE t \in {"EPF", "PPF", "NPS", "POST_OFFICE_SAVINGS"} ->
                (Num(i, "balance") * rate) \div 100
          [] t \in {"FIXED_DEPOSIT", "POST_OFFICE_TD"} ->
                IF Opt(i, "interestPayoutType", "cumulative") = "non-cumulative"
                      \/ Opt(i, "compoundingFrequency", "yearly") = "simple"
                THEN (Num(i, "principal") * rate) \div 100
                ELSE CompoundedInYear(Num(i, "principal"), rate,
                         AttributionPeriods(Opt(i, "compoundingFrequency", "yearly")),
                         i["startDate"], yearStart)
          [] t \in {"RECURRING_DEPOSIT", "POST_OFFICE_RD"} ->
                (Num(i, "monthlyDeposit") * 6 * rate) \div 100
          [] t = "POST_OFFICE_SCSS" -> (Num(i, "principal") * rate) \div 100
          [] t = "POST_OFFICE_MIS" ->
                LET activeStart  == IF i["startDate"] > yearStart
                                    THEN i["startDate"] ELSE yearStart
                    activeEnd    == IF i["maturityDate"] < yearEnd
                                    THEN i["maturityDate"] ELSE yearEnd
                    monthsActive == MonthsRound(activeEnd - activeStart)
                IN  Num(i, "monthlyIncome")
                        * (IF monthsActive < 12 THEN monthsActive ELSE 12)
          [] t \in {"POST_OFFICE_KVP", "POST_OFFICE_NSC"} ->
                LET days == i["maturityDate"] - i["purchaseDate"]
                IN  IF days > 0
                    THEN ((i["maturityAmount"] - i["principal"]) * 1461) \div (4 * days)
                    ELSE 0
          [] t = "BONDS" -> (Num(i, "faceValue") * Num(i, "couponRate")) \div 100
          [] t = "SGB" -> (Num(i, "units") * Num(i, "issuePrice") * rate) \div 100
          [] t = "POST_OFFICE_MSSC" ->
                CompoundedInYear(Num(i, "principal"), rate, 4, i["depositDate"],
                                 yearStart)

\* monthlyInterest of one record that is active in the month
MonthlyInterest(i) ==
    LET t    == TypeOf(i)
        rate == Num(i, "interestRate")
    IN  CASE t \in {"EPF", "PPF", "NPS", "POST_OFFICE_SAVINGS"} ->
                (Num(i, "balance") * rate) \div 1200
          [] t \in {"FIXED_DEPOSIT", "POST_OFFICE_TD", "POST_OFFICE_SCSS",
                    "POST_OFFICE_MSSC"} ->
                (Num(i, "principal") * rate) \div 1200
          [] t \in {"RECURRING_DEPOSIT", "POST_OFFICE_RD"} ->
                (Num(i, "monthlyDeposit") * rate) \div 1200
          [] t = "POST_OFFICE_MIS" -> Num(i, "monthlyIncome")
          [] t \in {"POST_OFFICE_KVP", "POST_OFFICE_NSC"} ->
                LET days == i["maturityDate"] - i["purchaseDate"]
                IN  IF days > 0
                    THEN ((i["maturityAmount"] - i["principal"]) * 3044)
                            \div (100 * days)
                    ELSE 0
          [] t = "BONDS" -> (Num(i, "faceValue") * Num(i, "couponRate")) \div 1200
          [] t = "SGB" -> (Num(i, "units") * Num(i, "issuePrice") * rate) \div 1200

RECURSIVE SumYearly(_, _, _)
\* investments.forEach(...): totalYearlyReturns += yearlyInterest
SumYearly(investments, yearStart, yearEnd) ==
    IF investments = <<>> THEN 0
    ELSE (IF ActiveIn(Head(investments), yearStart, yearEnd)
          THEN YearlyInterest(Head(investments), yearStart, yearEnd) ELSE 0)
         + SumYearly(Tail(investments), yearStart, yearEnd)

CalculateYearlyReturns(investments, y) ==
    V(SumYearly(investments, YearStart(y), YearEnd(y)))

RECURSIVE SumMonthly(_, _, _)
\* investments.forEach(...): monthlyReturns += monthlyInterest
SumMonthly(investments, monthStart, monthEnd) ==
    IF investments = <<>> THEN 0
    ELSE (IF ActiveIn(Head(investments), monthStart, monthEnd)
          THEN MonthlyInterest(Head(investments)) ELSE 0)
         + SumMonthly(Tail(investments), monthStart, monthEnd)

CalculateMonthlyReturns(investments, y) ==
    IF Len(investments) = 0 THEN <<>>
    ELSE [m \in 1..12 |->
            [month   |-> m,
             returns |-> V(SumMonthly(investments, MonthStart(y, m), MonthEnd(y, m)))]]

(* navigation/AppNavigator.js: the reports screen over the stored portfolio *)

\* the monthly breakdown greys out the months it takes for future ones
IsFutureMonth(selectedYear, month, now) ==
    \/ selectedYear = FullYear(now) /\ month > MonthOf(now)
    \/ selectedYear > FullYear(now)

\* useFocusEffect: all the analytics of the screen, for the selected year
LoadReports(selectedYear) ==
    LET highlights == GetPerformanceHighlights(portfolio, usdToInrRate, clock)
    IN  /\ yearly' = CalculateYearlyReturns(portfolio, selectedYear)
        /\ top' = highlights.topPerformers
        /\ bottom' = highlights.bottomPerformers
        /\ monthly' = CalculateMonthlyReturns(portfolio, selectedYear)
        /\ pc' = "reports"

\* the user adds a record; storage gives it the next id
AddInvestment ==
    /\ Len(portfolio) < MaxPortfolio
    /\ \E i \in RankPool :
          portfolio' = Append(portfolio, Stored(i, Len(portfolio) + 1))
    /\ pc' = "edited"
    /\ UNCHANGED <<inputVars, deviceVars, engineVars, clock, invested, current, returns, pct, readAt, prev,
                   display, top, bottom, year, yearly, monthly>>

\* the screen gains the focus
FocusReports ==
    /\ pc = "edited"
    /\ LoadReports(year)
    /\ UNCHANGED <<inputVars, deviceVars, engineVars, clock, invested, current, returns, pct, readAt, prev,
                   display, portfolio, year>>

\* handleYearChange, and the effect that the new selectedYear triggers
SelectYear ==
    /\ pc = "reports"
    /\ \E y \in Years \ {year} :
          /\ year' = y
          /\ LoadReports(y)
    /\ UNCHANGED <<inputVars, deviceVars, engineVars, clock, invested, current, returns, pct, readAt, prev,
                   display, portfolio>>

RankInit ==
    /\ inv = Other
    /\ usdToInrRate = 83
    /\ clock = 0
    /\ pc = "edited"
    /\ ValuationIdle
    /\ DeviceIdle
    /\ EngineIdle
    /\ AnalyticsIdle

RankNext ==
    \/ AddInvestment
    \/ FocusReports

RankSpec == RankInit /\ [][RankNext]_vars

MaxStored == 2

\* the interest-bearing records, and one that bears none
AttrPool == {Epf, Fd, FdSimple, Rd, Bond, Scss, Savings, Mis, Kvp, Stocks}

\* the portfolios that storage can hold: records under the ids 1, 2, ...
StoredPortfolios ==
    UNION {{[k \in 1..n |-> Stored(choice[k], k)] : choice \in [1..n -> AttrPool]}
           : n \in 1..MaxStored}

AttrInit ==
    /\ inv = Other
    /\ usdToInrRate = 83
    /\ clock = 0
    /\ pc = "edited"
    /\ ValuationIdle
    /\ DeviceIdle
    /\ EngineIdle
    /\ portfolio \in StoredPortfolios
    /\ top = <<>>
    /\ bottom = <<>>
    /\ year = 0
    /\ yearly = V(0)
    /\ monthly = <<>>

AttrNext ==
    \/ Tick
    \/ FocusReports
    \/ SelectYear

AttrSpec == AttrInit /\ [][AttrNext]_vars

-----------------------------------------------------------------------------
(* utils/calculations.js: the aggregates over a list of investments *)

RECURSIVE SumInvested(_, _, _)
\* investments.reduce((total, investment) => total + invested, 0)
SumInvested(investments, rate, now) ==
    IF investments = <<>> THEN V(0)
    ELSE JsAdd(SumInvested(SubSeq(investments, 1, Len(investments) - 1), rate, now),
               GetInvestedAmount(investments[Len(investments)], rate, now))

RECURSIVE SumCurrent(_, _, _)
\* investments.reduce((total, investment) => total + current, 0)
SumCurrent(investments, rate, now) ==
    IF investments = <<>> THEN V(0)
    ELSE JsAdd(SumCurrent(SubSeq(investments, 1, Len(investments) - 1), rate, now),
               GetCurrentValue(investments[Len(investments)], rate, now))

\* a list that is not given counts for nothing
CalculateTotalInvested(given, investments, rate, now) ==
    IF ~given THEN V(0) ELSE SumInvested(investments, rate, now)

CalculateTotalCurrentValue(given, investments, rate, now) ==
    IF ~given THEN V(0) ELSE SumCurrent(investments, rate, now)

CalculateTotalReturns(given, investments, rate, now) ==
    IF ~given THEN V(0)
    ELSE JsSub(CalculateTotalCurrentValue(given, investments, rate, now),
               CalculateTotalInvested(given, investments, rate, now))

\* (returns / invested) * 100, in hundredths of a percent; 0 when invested === 0
CalculateReturnsPercentage(given, investments, rate, now) ==
    LET a == CalculateTotalInvested(given, investments, rate, now)
        r == CalculateTotalReturns(given, investments, rate, now)
    IN  IF ~a.nan /\ a.v = 0 THEN V(0)
        ELSE IF a.nan \/ r.nan THEN NaN
        ELSE V((r.v * 10000) \div a.v)

\* investment.type of a null element is a TypeError
ReadsNullElement(investments) ==
    \E k \in 1..Len(investments) : investments[k] = Null

RECURSIVE TypesInOrder(_)
\* the keys of the groups object, in the order of their first record
TypesInOrder(investments) ==
    IF investments = <<>> THEN <<>>
    ELSE LET before == TypesInOrder(SubSeq(investments, 1, Len(investments) - 1))
             type   == TypeOf(investments[Len(investments)])
         IN  IF \E k \in 1..Len(before) : before[k] = type
             THEN before ELSE Append(before, type)

\* groups[type]: the records of the type, in the order of the list
GroupInvestmentsByType(investments) ==
    LET types == TypesInOrder(investments)
    IN  [k \in 1..Len(types) |->
            [type  |-> types[k],
             items |-> SelectSeq(investments, LAMBDA i : TypeOf(i) = types[k])]]

RECURSIVE InsertByValue(_, _)
\* the entry goes behind every entry whose value is not smaller
InsertByValue(entry, sorted) ==
    IF sorted = <<>> THEN <<entry>>
    ELSE IF Head(sorted).value.v >= entry.value.v
         THEN <<Head(sorted)>> \o InsertByValue(entry, Tail(sorted))
         ELSE <<entry>> \o sorted

RECURSIVE SortByValue(_)
\* .sort((a, b) => b.value - a.value), a stable sort
SortByValue(entries) ==
    IF entries = <<>> THEN <<>>
    ELSE InsertByValue(entries[Len(entries)],
                       SortByValue(SubSeq(entries, 1, Len(entries) - 1)))

\* the share cut down to whole percents
ShareInWholePercents(typeValue, totalValue) ==
    IF typeValue.nan \/ totalValue.nan THEN NaN
    ELSE V(((typeValue.v * 100) \div totalValue.v) * 100)

\* (typeValue / totalValue) * 100, in hundredths of a percent
Share(typeValue, totalValue) ==
    IF typeValue.nan \/ totalValue.nan THEN NaN
    ELSE V((typeValue.v * 10000) \div totalValue.v)

CalculatePortfolioAllocation(given, investments, rate, now) ==
    LET totalValue == CalculateTotalCurrentValue(given, investments, rate, now)
        grouped    == GroupInvestmentsByType(investments)
    IN  IF ~given \/ totalValue = V(0) THEN <<>>
        ELSE SortByValue(
                [k \in 1..Len(grouped) |->
                    LET typeValue == CalculateTotalCurrentValue(TRUE, grouped[k].items,
                                                                rate, now)
                    IN  [type       |-> grouped[k].type,
                         value      |-> typeValue,
                         percentage |-> Share(typeValue, totalValue),
                         count      |-> Len(grouped[k].items)]])

\* the calls that end in a TypeError instead of a value
AllocationThrows(given, investments, rate, now) ==
    /\ given
    /\ CalculateTotalCurrentValue(given, investments, rate, now) # V(0)
    /\ ReadsNullElement(investments)

\* investments.forEach of no list; investment.interestRate of a null element
YearlyThrows(given, investments) == ~given \/ ReadsNullElement(investments)

MonthlyThrows(given, investments) ==
    given /\ Len(investments) > 0 /\ ReadsNullElement(investments)

(* The engine's functions applied to a list: one call per behaviour *)

MaxList == 3

\* shares that cost nothing: the buy price was never filled in
BonusShares == Without(Stocks, {"buyPrice"})

\* elements of a list: records that gain and lose, one that changes with the
\* clock, one with nothing invested, one that is worth nothing, and null
EnginePool == {Null, Stocks, MutualFund, Fd, BonusShares, Unknown}

\* a stored record has an id; null has none
Element(i, id) == IF i = Null THEN Null ELSE Stored(i, id)

EngineLists ==
    UNION {{[k \in 1..n |-> Element(choice[k], k)] : choice \in [1..n -> EnginePool]}
           : n \in 0..MaxList}

EngineInstants == {0, 2 * DayStep, MaxTicks * DayStep}

\* the list as a sort of the caller's own array would leave it
SortedInPlace(investments) == Reverse(investments)

\* the list the caller holds after the call: the engine reduces, maps and
\* filters it into new arrays and sorts only those
CallerList(investments) == investments

EngineInit ==
    /\ inv = Other
    /\ usdToInrRate = 83
    /\ clock \in EngineInstants
    /\ pc = "input"
    /\ ValuationIdle
    /\ DeviceIdle
    /\ missing \in BOOLEAN
    /\ portfolio \in (IF missing THEN {<<>>} ELSE EngineLists)
    /\ valuations = <<>>
    /\ totals = NoTotals
    /\ allocation = <<>>
    /\ threw = FALSE
    /\ top = <<>>
    /\ bottom = <<>>
    /\ year = 0
    /\ yearly = V(0)
    /\ monthly = <<>>

\* getInvestedAmount, getCurrentValue, getReturns and getReturnsPercentage of
\* every element
CallValuations ==
    /\ pc = "input"
    /\ ~missing
    /\ valuations' = WithReturns(portfolio, usdToInrRate, clock)
    /\ portfolio' = CallerList(portfolio)
    /\ pc' = "valuations"
    /\ UNCHANGED <<inputVars, deviceVars, clock, invested, current, returns, pct, readAt, prev,
                   display, top, bottom, year, yearly, monthly, missing, totals,
                   allocation, threw>>

CallTotals ==
    /\ pc = "input"
    /\ totals' =
          [invested   |-> CalculateTotalInvested(~missing, portfolio, usdToInrRate, clock),
           current    |-> CalculateTotalCurrentValue(~missing, portfolio, usdToInrRate,
                                                     clock),
           returns    |-> CalculateTotalReturns(~missing, portfolio, usdToInrRate, clock),
           percentage |-> CalculateReturnsPercentage(~missing, portfolio, usdToInrRate,
                                                     clock)]
    /\ portfolio' = CallerList(portfolio)
    /\ pc' = "totals"
    /\ UNCHANGED <<inputVars, deviceVars, clock, invested, current, returns, pct, readAt, prev,
                   display, top, bottom, year, yearly, monthly, missing, valuations,
                   allocation, threw>>

CallAllocation ==
    /\ pc = "input"
    /\ IF AllocationThrows(~missing, portfolio, usdToInrRate, clock)
       THEN /\ threw' = TRUE
            /\ UNCHANGED allocation
       ELSE /\ allocation' = CalculatePortfolioAllocation(~missing, portfolio,
                                                          usdToInrRate, clock)
            /\ UNCHANGED threw
    /\ portfolio' = CallerList(portfolio)
    /\ pc' = "allocation"
    /\ UNCHANGED <<inputVars, deviceVars, clock, invested, current, returns, pct, readAt, prev,
                   display, top, bottom, year, yearly, monthly, missing, valuations,
                   totals>>

CallHighlights ==
    /\ pc = "input"
    /\ LET highlights == GetPerformanceHighlights(portfolio, usdToInrRate, clock)
       IN  /\ top' = highlights.topPerformers
           /\ bottom' = highlights.bottomPerformers
    /\ portfolio' = CallerList(portfolio)
    /\ pc' = "highlights"
    /\ UNCHANGED <<inputVars, deviceVars, clock, invested, current, returns, pct, readAt, prev,
                   display, year, yearly, monthly, engineVars>>

\* calculateYearlyReturnsComparison(investments, [y])
CallYearly ==
    /\ pc = "input"
    /\ \E y \in Years :
          /\ year' = y
          /\ IF YearlyThrows(~missing, portfolio)
             THEN /\ threw' = TRUE
                  /\ UNCHANGED yearly
             ELSE /\ yearly' = CalculateYearlyReturns(portfolio, y)
                  /\ UNCHANGED threw
    /\ portfolio' = CallerList(portfolio)
    /\ pc' = "yearly"
    /\ UNCHANGED <<inputVars, deviceVars, clock, invested, current, returns, pct, readAt, prev,
                   display, top, bottom, monthly, missing, valuations, totals,
                   allocation>>

\* calculateMonthlyReturns(investments, y)
CallMonthly ==
    /\ pc = "input"
    /\ \E y \in Years :
          /\ year' = y
          /\ IF MonthlyThrows(~missing, portfolio)
             THEN /\ threw' = TRUE
                  /\ UNCHANGED monthly
             ELSE /\ monthly' = CalculateMonthlyReturns(portfolio, y)
                  /\ UNCHANGED threw
    /\ portfolio' = CallerList(portfolio)
    /\ pc' = "monthly"
    /\ UNCHANGED <<inputVars, deviceVars, clock, invested, current, returns, pct, readAt, prev,
                   display, top, bottom, yearly, missing, valuations, totals,
                   allocation>>

EngineNext ==
    \/ CallValuations
    \/ CallTotals
    \/ CallAllocation
    \/ CallHighlights
    \/ CallYearly
    \/ CallMonthly

EngineSpec == EngineInit /\ [][EngineNext]_vars

(* The attribution applied to records with and without their dates *)

\* a scheme whose start date was never filled in, and a bond whose maturity
\* date is no date
ScssUndated == Without(Scss, {"startDate"})

BondMisdated == [Bond EXCEPT !["maturityDate"] = InvalidDate]

WindowPool == {Fd, FdSimple, Kvp, Mis, Bond, ScssUndated, BondMisdated}

WindowLists ==
    UNION {{[k \in 1..n |-> Stored(choice[k], k)] : choice \in [1..n -> WindowPool]}
           : n \in 1..MaxList}

WindowInit ==
    /\ inv = Other
    /\ usdToInrRate = 83
    /\ clock = 0
    /\ pc = "input"
    /\ ValuationIdle
    /\ DeviceIdle
    /\ EngineIdle
    /\ portfolio \in WindowLists
    /\ top = <<>>
    /\ bottom = <<>>
    /\ year = 0
    /\ yearly = V(0)
    /\ monthly = <<>>

WindowNext ==
    \/ CallYearly
    \/ CallMonthly

WindowSpec == WindowInit /\ [][WindowNext]_vars

(* services/notificationService.js: the maturity notifications *)

\* the days the alerts look ahead
Week == 7

\* the hour of the day a notification is set to
AlertHour == 9

\* getMaturityDate: the switch's cases return investment.maturityDate, its
\* default returns null
MaturityTypes ==
    {"FIXED_DEPOSIT", "POST_OFFICE_TD", "RECURRING_DEPOSIT", "POST_OFFICE_RD",
     "POST_OFFICE_SCSS", "POST_OFFICE_MIS", "POST_OFFICE_KVP", "POST_OFFICE_NSC",
     "BONDS", "SGB", "INSURANCE"}

\* null, undefined and a text that is no date all make the loop pass the
\* record by: the three are InvalidDate here
GetMaturityDate(i) ==
    IF i # Null /\ TypeOf(i) \in MaturityTypes /\ HasDate(i, "maturityDate")
    THEN i["maturityDate"]
    ELSE InvalidDate

\* scheduleNotification: the notification handed to the device; its date is
\* now + (7 - daysUntilMaturity) days, at 9:00
ScheduleNotification(i, daysUntilMaturity, now) ==
    [investmentId |-> IdOf(i),
     days         |-> daysUntilMaturity,
     maturityDate |-> i["maturityDate"],
     date         |-> now + (Week - daysUntilMaturity),
     hour         |-> AlertHour]

\* for (let day = daysUntilMaturity; day >= 0; day--)
Countdown(i, daysUntilMaturity) ==
    [n \in 1..(daysUntilMaturity + 1) |->
        [investment |-> i, day |-> daysUntilMaturity + 1 - n]]

\* the calls of scheduleNotification that the loop over the investments will
\* make, in order
RECURSIVE Alerts(_, _)
Alerts(investments, today) ==
    IF investments = <<>> THEN <<>>
    ELSE LET i == Head(investments)
             maturityDate == GetMaturityDate(i)
         IN  (IF /\ maturityDate # InvalidDate
                 /\ maturityDate >= today
                 /\ maturityDate <= today + Week
              THEN Countdown(i, maturityDate - today)
              ELSE <<>>)
             \o Alerts(Tail(investments), today)

\* a run of scheduleMaturityNotifications that has not begun
NoRun == [pc |-> "idle", read |-> <<>>, todo |-> <<>>, scheduledCount |-> 0]

\* await Notifications.cancelAllScheduledNotificationsAsync()
CancelAll(r) ==
    /\ tasks[r].pc = "idle"
    /\ scheduled' = EmptyBag
    /\ tasks' = [tasks EXCEPT ![r].pc = "cancelled"]
    /\ UNCHANGED <<inputVars, engineVars, analyticsVars, storage, clock, pc, invested,
                   current, returns, pct, readAt, prev, display>>

\* const investments = await loadInvestments(): the stored list, or [] when
\* the read fails; today is read, and the loop runs up to its first await
LoadForAlerts(r) ==
    /\ tasks[r].pc = "cancelled"
    /\ \E investments \in {storage, <<>>} :
          tasks' = [tasks EXCEPT ![r].pc = "loop",
                                 ![r].read = investments,
                                 ![r].todo = Alerts(investments, clock)]
    /\ UNCHANGED <<inputVars, engineVars, analyticsVars, storage, scheduled, clock, pc,
                   invested, current, returns, pct, readAt, prev, display>>

\* await scheduleNotification(investment, day, maturityDateStr); scheduledCount++
ScheduleNext(r) ==
    /\ tasks[r].pc = "loop"
    /\ tasks[r].todo # <<>>
    /\ LET next == Head(tasks[r].todo)
       IN  scheduled' = scheduled
                (+) SetToBag({ScheduleNotification(next.investment, next.day, clock)})
    /\ tasks' = [tasks EXCEPT ![r].todo = Tail(@),
                              ![r].scheduledCount = @ + 1]
    /\ UNCHANGED <<inputVars, engineVars, analyticsVars, storage, clock, pc, invested,
                   current, returns, pct, readAt, prev, display>>

\* return scheduledCount
FinishRun(r) ==
    /\ tasks[r].pc = "loop"
    /\ tasks[r].todo = <<>>
    /\ tasks' = [tasks EXCEPT ![r].pc = "done"]
    /\ UNCHANGED <<inputVars, engineVars, analyticsVars, storage, scheduled, clock, pc,
                   invested, current, returns, pct, readAt, prev, display>>

\* the app starts again, or another investment is saved: the run is called anew
CallAgain(r) ==
    /\ tasks[r].pc = "done"
    /\ tasks' = [tasks EXCEPT ![r] = NoRun]
    /\ UNCHANGED <<inputVars, engineVars, analyticsVars, storage, scheduled, clock, pc,
                   invested, current, returns, pct, readAt, prev, display>>

\* a record of a type under the id and with the maturity date given
Maturing(i, id, maturityDate) ==
    [f \in DOMAIN i \cup {"id", "maturityDate"} |->
        CASE f = "id" -> id
          [] f = "maturityDate" -> maturityDate
          [] OTHER -> i[f]]

\* today, and the days from today on which the stored records mature
Today == 2 * DayStep

MaturityOffsets == {-1, 0, 2, Week, Week + 1}

AlertPool == {Fd, Endowment, Mssc}

AlertLists ==
    UNION {{[k \in 1..n |-> Maturing(choice[k][1], k, Today + choice[k][2])]
              : choice \in [1..n -> AlertPool \X MaturityOffsets]}
           : n \in 1..MaxStored}

\* the two callers of the run: App's effect and the form's handleSave
Runs == {1, 2}

NotifyInit ==
    /\ inv = Other
    /\ usdToInrRate = 83
    /\ clock = Today
    /\ pc = "input"
    /\ ValuationIdle
    /\ EngineIdle
    /\ AnalyticsIdle
    /\ storage \in AlertLists
    /\ scheduled = EmptyBag
    /\ tasks = [r \in Runs |-> NoRun]

NotifyNext ==
    \E r \in Runs :
       \/ CancelAll(r)
       \/ LoadForAlerts(r)
       \/ ScheduleNext(r)
       \/ FinishRun(r)
       \/ CallAgain(r)

NotifySpec == NotifyInit /\ [][NotifyNext]_vars

(* utils/storage.js: the stored list and the calls that change it *)

\* loadInvestments: the stored list, or [] when the read or the parse throws.
\* What is stored was written by JSON.stringify, and JSON.parse of it followed
\* by JSON.stringify gives the same text back: a record that is read and
\* written again is stored as it was
LoadInvestments(readable) == IF readable THEN storage ELSE <<>>

\* generateId: a time stamp and a random text; no two calls give the same id,
\* and none gives an id that is stored
GenerateId(c) == MaxStored + 1 + c

\* { ...investment, id: generateId(), createdAt, updatedAt }
NewInvestment(investment, id, now) ==
    [f \in DOMAIN investment \cup {"id", "createdAt", "updatedAt"} |->
        CASE f = "id" -> id
          [] f \in {"createdAt", "updatedAt"} -> now
          [] OTHER -> investment[f]]

\* investments.findIndex(inv => inv.id === id); 0 stands for -1
FindIndex(investments, id) ==
    IF \E k \in 1..Len(investments) : IdOf(investments[k]) = id
    THEN CHOOSE k \in 1..Len(investments) :
            /\ IdOf(investments[k]) = id
            /\ \A j \in 1..(k - 1) : IdOf(investments[j]) # id
    ELSE 0

\* { ...investments[index], ...updatedData, updatedAt }
Merged(investment, updatedData, now) ==
    [f \in DOMAIN investment \cup DOMAIN updatedData \cup {"updatedAt"} |->
        CASE f = "updatedAt" -> now
          [] f \in DOMAIN updatedData -> updatedData[f]
          [] OTHER -> investment[f]]

\* the record taken out of its place and put at the end of the list
MovedToEnd(investments, index, investment) ==
    Append(SelectSeq([investments EXCEPT ![index] = Null], LAMBDA i : i # Null),
           investment)

\* investments[index] = ...
Replaced(investments, index, investment) ==
    [investments EXCEPT ![index] = investment]

\* a call that has not been made
NoCall == [op |-> "none", pc |-> "idle", investment |-> Null, id |-> 0,
           updatedData |-> Null, investments |-> <<>>, saved |-> FALSE,
           result |-> Null, success |-> FALSE]

\* what the forms hand to the calls
StorePool == {Fd, Stocks}

UpdatedData == {[currentPrice |-> 95], [principal |-> 12000, bankName |-> "SBI"]}

StoreLists ==
    UNION {{[k \in 1..n |-> NewInvestment(choice[k], k, 0)]
              : choice \in [1..n -> StorePool]}
           : n \in 0..MaxStored}

\* the calls that can be in flight together
Calls == {1, 2}

\* addInvestment(investment), updateInvestment(id, updatedData) or
\* deleteInvestment(id) is called and its await loadInvestments() returns
CallStorage(c) ==
    /\ tasks[c].pc = "idle"
    /\ \E readable \in BOOLEAN :
          \/ \E investment \in StorePool :
                tasks' = [tasks EXCEPT ![c].op = "add",
                                       ![c].investment = investment,
                                       ![c].investments = LoadInvestments(readable),
                                       ![c].pc = "loaded"]
          \/ \E id \in 1..(MaxStored + 1), data \in UpdatedData :
                tasks' = [tasks EXCEPT ![c].op = "update",
                                       ![c].id = id,
                                       ![c].updatedData = data,
                                       ![c].investments = LoadInvestments(readable),
                                       ![c].pc = "loaded"]
          \/ \E id \in 1..(MaxStored + 1) :
                tasks' = [tasks EXCEPT ![c].op = "delete",
                                       ![c].id = id,
                                       ![c].investments = LoadInvestments(readable),
                                       ![c].pc = "loaded"]
    /\ UNCHANGED <<inputVars, engineVars, analyticsVars, storage, scheduled, clock, pc,
                   invested, current, returns, pct, readAt, prev, display>>

\* addInvestment: push, await saveInvestments(investments) (its result is not
\* read), return newInvestment
AddInvestmentSave(c) ==
    /\ tasks[c].pc = "loaded"
    /\ tasks[c].op = "add"
    /\ LET newInvestment == NewInvestment(tasks[c].investment, GenerateId(c), clock)
           investments == Append(tasks[c].investments, newInvestment)
       IN  \E writable \in BOOLEAN :
              /\ storage' = IF writable THEN investments ELSE storage
              /\ tasks' = [tasks EXCEPT ![c].investments = investments,
                                        ![c].saved = writable,
                                        ![c].result = newInvestment,
                                        ![c].pc = "done"]
    /\ UNCHANGED <<inputVars, engineVars, analyticsVars, scheduled, clock, pc, invested,
                   current, returns, pct, readAt, prev, display>>

\* updateInvestment: return null when the id is not found; else replace the
\* record, await saveInvestments(investments), return investments[index]
UpdateInvestmentSave(c) ==
    /\ tasks[c].pc = "loaded"
    /\ tasks[c].op = "update"
    /\ LET index == FindIndex(tasks[c].investments, tasks[c].id)
       IN  IF index = 0
           THEN /\ tasks' = [tasks EXCEPT ![c].result = Null, ![c].pc = "done"]
                /\ UNCHANGED storage
           ELSE LET updated == Merged(tasks[c].investments[index],
                                      tasks[c].updatedData, clock)
                    investments == Replaced(tasks[c].investments, index, updated)
                IN  \E writable \in BOOLEAN :
                       /\ storage' = IF writable THEN investments ELSE storage
                       /\ tasks' = [tasks EXCEPT ![c].investments = investments,
                                                 ![c].saved = writable,
                                                 ![c].result = updated,
                                                 ![c].pc = "done"]
    /\ UNCHANGED <<inputVars, engineVars, analyticsVars, scheduled, clock, pc, invested,
                   current, returns, pct, readAt, prev, display>>

\* deleteInvestment: filter, await saveInvestments(filteredInvestments) (its
\* result is not read), return true
DeleteInvestmentSave(c) ==
    /\ tasks[c].pc = "loaded"
    /\ tasks[c].op = "delete"
    /\ LET filteredInvestments ==
              SelectSeq(tasks[c].investments, LAMBDA i : IdOf(i) # tasks[c].id)
       IN  \E writable \in BOOLEAN :
              /\ storage' = IF writable THEN filteredInvestments ELSE storage
              /\ tasks' = [tasks EXCEPT ![c].saved = writable,
                                        ![c].success = TRUE,
                                        ![c].pc = "done"]
    /\ UNCHANGED <<inputVars, engineVars, analyticsVars, scheduled, clock, pc, invested,
                   current, returns, pct, readAt, prev, display>>

StoreInit ==
    /\ inv = Other
    /\ usdToInrRate = 83
    /\ clock = DayStep
    /\ pc = "input"
    /\ ValuationIdle
    /\ EngineIdle
    /\ AnalyticsIdle
    /\ storage \in StoreLists
    /\ scheduled = EmptyBag
    /\ tasks = [c \in Calls |-> NoCall]

StoreNext ==
    \E c \in Calls :
       \/ CallStorage(c)
       \/ AddInvestmentSave(c)
       \/ UpdateInvestmentSave(c)
       \/ DeleteInvestmentSave(c)

StoreSpec == StoreInit /\ [][StoreNext]_vars

-----------------------------------------------------------------------------
(* Claims about the valuation engine *)

\* C1 (as claimed): once a card has its three numbers, the current value is
\* the invested amount plus the returns, also when the clock advanced
\* between the calls that produced them
C1_CurrentIsInvestedPlusReturns ==
    pc \in {"returns", "shown"} => current = JsAdd(invested, returns)

MaturingTypes ==
    {"FIXED_DEPOSIT", "RECURRING_DEPOSIT", "POST_OFFICE_RD", "POST_OFFICE_SCSS",
     "POST_OFFICE_MIS", "POST_OFFICE_KVP", "POST_OFFICE_MSSC", "POST_OFFICE_TD",
     "INSURANCE"}

\* C2 (as claimed): the current value of a matured instrument of a date-based
\* type is its current value on the maturity date
C2_MaturedStopsAccruing ==
    (/\ pc # "input"
     /\ TypeOf(inv) \in MaturingTypes
     /\ "maturityDate" \in DOMAIN inv
     /\ clock >= inv["maturityDate"])
    => current = GetCurrentValue(inv, usdToInrRate, inv["maturityDate"])

ProvidentTypes == {"EPF", "PPF", "NPS"}

\* months between lastUpdated and the clock, as the engine rounds them
ProvidentMonths ==
    IF "lastUpdated" \in DOMAIN inv
    THEN Max0(MonthsRound(clock - inv["lastUpdated"]))
    ELSE 0

ProvidentWithoutContribution ==
    /\ pc # "input"
    /\ TypeOf(inv) \in ProvidentTypes
    /\ Num(inv, "monthlyContribution") = 0

\* C4 (as claimed): with no contribution the accrual over m months is monthly
\* compound interest, balance * (1 + rate/1200)^m
C4_ZeroContributionIsCompound ==
    ProvidentWithoutContribution
    => current = V((Num(inv, "balance")
                    * IntPow(1200 + Num(inv, "interestRate"), 1200, ProvidentMonths))
                   \div 10000)

\* C4 (amended): with no contribution the accrual over m months is simple
\* interest on the unchanged balance, balance * (1 + m * rate/1200)
C4_ZeroContributionIsSimple ==
    ProvidentWithoutContribution
    => current = V(Num(inv, "balance")
                   + (Num(inv, "balance") * Num(inv, "interestRate") * ProvidentMonths)
                     \div 1200)

C4_Witness ==
    /\ ProvidentWithoutContribution
    /\ ProvidentMonths >= 2
    /\ Num(inv, "balance") > 0
    /\ Num(inv, "interestRate") > 0
    /\ current.v > Num(inv, "balance")

\* principal at or before the purchase, the maturity amount from maturity on,
\* in between in proportion to the elapsed time
Interpolated(i, now) ==
    IF now >= i["maturityDate"] THEN i["maturityAmount"]
    ELSE IF now <= i["purchaseDate"] THEN i["principal"]
    ELSE i["principal"]
         + ((i["maturityAmount"] - i["principal"]) * (now - i["purchaseDate"]))
           \div (i["maturityDate"] - i["purchaseDate"])

\* C5 (as claimed): the current value of a KVP or NSC certificate is the
\* linear interpolation between principal and maturity amount
C5_CertificateIsInterpolated ==
    (/\ pc # "input"
     /\ TypeOf(inv) \in {"POST_OFFICE_KVP", "POST_OFFICE_NSC"}
     /\ {"principal", "maturityAmount", "purchaseDate", "maturityDate"}
            \subseteq DOMAIN inv)
    => current = V(Interpolated(inv, clock))

\* the types whose invested amount, and whose current value, read no clock
InvestedClockFree(i) ==
    TypeOf(i) \notin {"RECURRING_DEPOSIT", "POST_OFFICE_RD", "INSURANCE"}

CurrentClockFree(i) ==
    TypeOf(i) \notin (ProvidentTypes \cup MaturingTypes)

TwoRenders == prev.done /\ pc = "shown"

C9_UnknownTypeIsZero ==
    (pc # "input" /\ TypeOf(inv) \notin KnownTypes)
    => /\ invested = V(0)
       /\ current = V(0)
       /\ returns = V(0)

C9_Witness ==
    /\ pc = "valued"
    /\ "type" \notin DOMAIN inv
    /\ Num(inv, "investedAmount") > 0
    /\ Num(inv, "currentValue") > 0
    /\ current = V(0)

\* C10 (as claimed): with numeric fields absent, neither the engine nor the
\* registry's summary yields NaN
C10_AbsentFieldsNeverNaN ==
    (pc = "summarized" /\ TypeOf(inv) \in KnownTypes)
    => /\ ~invested.nan
       /\ ~current.nan
       /\ ~display.invested.nan
       /\ ~display.current.nan
       /\ ~display.returns.nan

PrincipalBased ==
    {"EPF", "PPF", "NPS", "FIXED_DEPOSIT", "RECURRING_DEPOSIT", "POST_OFFICE_RD",
     "POST_OFFICE_SCSS", "POST_OFFICE_SAVINGS", "POST_OFFICE_MIS", "POST_OFFICE_KVP",
     "POST_OFFICE_TD", "POST_OFFICE_NSC", "POST_OFFICE_MSSC"}

\* the date on which the instrument starts, if it has one
StartOf(i) ==
    CASE "startDate" \in DOMAIN i    -> i["startDate"]
      [] "purchaseDate" \in DOMAIN i -> i["purchaseDate"]
      [] "depositDate" \in DOMAIN i  -> i["depositDate"]
      [] OTHER                       -> 0

\* C17: the invested amount and the current value of a deposit, a provident
\* fund or a post-office scheme are numbers >= 0 at every clock value, also
\* before the instrument starts
C17_PrincipalBasedNeverNegative ==
    (pc # "input" /\ TypeOf(inv) \in PrincipalBased)
    => /\ ~invested.nan
       /\ invested.v >= 0
       /\ ~current.nan
       /\ current.v >= 0

\* a recurring deposit valued before its first instalment
C17_Witness ==
    /\ pc = "valued"
    /\ TypeOf(inv) = "POST_OFFICE_RD"
    /\ Num(inv, "monthlyDeposit") > 0
    /\ clock < StartOf(inv)
    /\ invested = V(0)

UsdDenominated == {"US_STOCKS", "RSU", "ESPP", "CRYPTOCURRENCY"}

\* C20: the exchange rate scales the invested amount and the current value of
\* the four dollar types and of no other type: a dollar record's values under
\* two rates are in the ratio of the rates, any other record's are the same
C20_RateScalesOnlyDollarTypes ==
    pc # "input" =>
       \A r \in Rates :
          LET a == GetInvestedAmount(inv, r, clock)
              c == GetCurrentValue(inv, r, clock)
          IN  IF TypeOf(inv) \in UsdDenominated
              THEN /\ ~a.nan /\ ~c.nan /\ ~invested.nan /\ ~current.nan
                   /\ a.v * usdToInrRate = invested.v * r
                   /\ c.v * usdToInrRate = current.v * r
              ELSE a = invested /\ c = current

\* a dollar record with a price and a quantity, valued
C20_Witness ==
    /\ pc = "valued"
    /\ TypeOf(inv) \in UsdDenominated
    /\ invested.v > 0
    /\ current.v > 0
    /\ current.v # invested.v

-----------------------------------------------------------------------------
(* Claims about the performance ranker *)

Ids(items) == {items[k].id : k \in 1..Len(items)}

EligibleCount ==
    Len(Eligible(WithReturns(portfolio, usdToInrRate, clock)))

\* C3 (as claimed): with exactly 5 eligible instruments no instrument is both
\* a top performer and a bottom performer
C3_FiveEligibleNoOverlap ==
    (pc = "reports" /\ EligibleCount = 5)
    => Ids(top) \cap Ids(bottom) = {}

\* the instruments with something invested, with their four numbers
EligibleItems == Eligible(WithReturns(portfolio, usdToInrRate, clock))

\* the items are eligible ones, each at most once
Chosen(items) ==
    /\ \A k \in 1..Len(items) : \E e \in 1..Len(EligibleItems) : EligibleItems[e] = items[k]
    /\ Cardinality(Ids(items)) = Len(items)

-----------------------------------------------------------------------------
(* Claims about the attribution *)

\* the variants that earn a flat rate on an unchanging amount
FlatRate(i) ==
    \/ TypeOf(i) \in {"POST_OFFICE_SCSS", "BONDS", "SGB"}
    \/ /\ TypeOf(i) = "FIXED_DEPOSIT"
       /\ Opt(i, "interestPayoutType", "cumulative") = "non-cumulative"

\* the days of year y that lie in the record's window, both ends included
OverlapDays(i, y) ==
    LET from == IF i[StartField(i)] > YearStart(y) THEN i[StartField(i)] ELSE YearStart(y)
        to   == IF i[EndField(i)] < YearEnd(y) THEN i[EndField(i)] ELSE YearEnd(y)
    IN  Max0(to - from + 1)

\* the flat yearly interest in proportion to the days of the overlap
ProRated(i, y) ==
    (YearlyInterest(i, YearStart(y), YearEnd(y)) * OverlapDays(i, y)) \div 365

\* C6 (as claimed): a flat-rate instrument that is active for a part of the
\* year is attributed the interest of that part only
C6_OnlyTheOverlapIsAttributed ==
    (/\ pc = "reports"
     /\ Len(portfolio) = 1
     /\ FlatRate(portfolio[1])
     /\ ActiveIn(portfolio[1], YearStart(year), YearEnd(year)))
    => yearly = V(ProRated(portfolio[1], year))

\* the record has both dates of its window, and they are dates
Dated2(i) == HasDate(i, StartField(i)) /\ HasDate(i, EndField(i))

\* the record's window ends before the target window or begins after it
Outside(i, windowStart, windowEnd) ==
    Dated2(i) /\ (i[EndField(i)] < windowStart \/ i[StartField(i)] > windowEnd)

\* C18: an instrument whose window does not meet the target year or month
\* contributes nothing: the total is that of the list without it
C18_OutsideTheWindowCountsNothing ==
    /\ pc = "yearly" =>
          yearly = CalculateYearlyReturns(
                      SelectSeq(portfolio,
                                LAMBDA i : ~Outside(i, YearStart(year), YearEnd(year))),
                      year)
    /\ pc = "monthly" =>
          \A m \in 1..12 :
             monthly[m].returns
                = V(SumMonthly(SelectSeq(portfolio,
                                  LAMBDA i : ~Outside(i, MonthStart(year, m),
                                                      MonthEnd(year, m))),
                               MonthStart(year, m), MonthEnd(year, m)))

\* a year that one deposit of the list has left and another is in, and a month
\* before a deposit starts
C18_Witness ==
    \/ /\ pc = "yearly"
       /\ yearly.v > 0
       /\ \E k \in 1..Len(portfolio) :
             /\ Outside(portfolio[k], YearStart(year), YearEnd(year))
             /\ YearlyInterest(portfolio[k], YearStart(year), YearEnd(year)) > 0
    \/ /\ pc = "monthly"
       /\ monthly[12].returns.v > 0
       /\ monthly[1].returns.v > 0
       /\ \E k \in 1..Len(portfolio) :
             /\ Outside(portfolio[k], MonthStart(year, 1), MonthEnd(year, 1))
             /\ ~Outside(portfolio[k], MonthStart(year, 12), MonthEnd(year, 12))

\* the record bears interest but lacks a date of its window, or has no date there
Undated(i) == TypeOf(i) \in InterestBearing /\ ~Dated2(i)

\* C19: an instrument without a date that its window needs, or with a text that
\* is no date, contributes 0 to every year and month, and the call returns
C19_UndatedCountsNothing ==
    /\ pc = "yearly" =>
          /\ ~threw
          /\ yearly = CalculateYearlyReturns(
                         SelectSeq(portfolio, LAMBDA i : ~Undated(i)), year)
    /\ pc = "monthly" =>
          /\ ~threw
          /\ \A m \in 1..12 :
                monthly[m].returns
                   = V(SumMonthly(SelectSeq(portfolio, LAMBDA i : ~Undated(i)),
                                  MonthStart(year, m), MonthEnd(year, m)))

\* a list with a record whose date is absent, one whose date is no date, and
\* a dated one that earns in the year
C19_Witness ==
    /\ pc = "yearly"
    /\ yearly.v > 0
    /\ \E k \in 1..Len(portfolio) :
          StartField(portfolio[k]) \notin DOMAIN portfolio[k]
             /\ Num(portfolio[k], "principal") > 0
    /\ \E k \in 1..Len(portfolio) :
          EndField(portfolio[k]) \in DOMAIN portfolio[k]
             /\ portfolio[k][EndField(portfolio[k])] = InvalidDate

\* C7 (as claimed): a month that the screen takes for a future one carries no
\* interest
C7_FutureMonthsCarryNothing ==
    pc = "reports"
    => \A m \in 1..Len(monthly) :
          IsFutureMonth(year, monthly[m].month, clock) => monthly[m].returns = V(0)

-----------------------------------------------------------------------------
(* Claims about the aggregates *)

\* returns / invested * 100 in hundredths of a percent, NaN if either is
Percentage(r, a) == IF a.nan \/ r.nan THEN NaN ELSE V((r.v * 10000) \div a.v)

\* C11: the percentage of a record and of a portfolio is 0 when nothing is
\* invested, which is a number and finite, and returns / invested * 100
\* otherwise
C11_PercentageOfNothingInvestedIsZero ==
    /\ pc = "valuations" =>
          \A k \in 1..Len(valuations) :
             IF valuations[k].invested = V(0)
             THEN valuations[k].returnsPercentage = V(0)
             ELSE valuations[k].returnsPercentage
                     = Percentage(valuations[k].returns, valuations[k].invested)
    /\ pc = "totals" =>
          IF totals.invested = V(0)
          THEN totals.percentage = V(0)
          ELSE totals.percentage = Percentage(totals.returns, totals.invested)

\* a record and a portfolio with nothing invested, and portfolios that gained
C11_Witness ==
    \/ /\ pc = "valuations"
       /\ \E k \in 1..Len(valuations) :
             valuations[k].invested = V(0) /\ valuations[k].current.v > 0
       /\ \E k \in 1..Len(valuations) : valuations[k].returnsPercentage.v < 0
    \/ /\ pc = "totals"
       /\ Len(portfolio) > 0
       /\ totals.invested = V(0)
       /\ totals.current.v > 0

\* C12 (as claimed): no call of an engine function ends in an exception,
\* whatever list it is given
C12_NoCallThrows == ~threw

RECURSIVE SumOfValues(_)
SumOfValues(entries) ==
    IF entries = <<>> THEN 0 ELSE Head(entries).value.v + SumOfValues(Tail(entries))

RECURSIVE SumOfPercentages(_)
SumOfPercentages(entries) ==
    IF entries = <<>> THEN 0
    ELSE Head(entries).percentage.v + SumOfPercentages(Tail(entries))

\* the total current value of the list that was handed in
TotalCurrent == CalculateTotalCurrentValue(~missing, portfolio, usdToInrRate, clock)

AllocationReturned == pc = "allocation" /\ ~threw

\* C13: when the total current value is positive, the values of the entries
\* sum to it and the percentages sum to 100, up to the rounding of each entry
\* to a hundredth of a percent
C13_AllocationSumsToTotal ==
    (AllocationReturned /\ ~TotalCurrent.nan /\ TotalCurrent.v > 0)
    => /\ SumOfValues(allocation) = TotalCurrent.v
       /\ \A k \in 1..Len(allocation) :
             allocation[k].percentage
                = V((allocation[k].value.v * 10000) \div TotalCurrent.v)
       /\ SumOfPercentages(allocation) <= 10000
       /\ SumOfPercentages(allocation) > 10000 - Len(allocation)

C13_Witness ==
    /\ AllocationReturned
    /\ TotalCurrent.v > 0
    /\ Len(allocation) = MaxList
    /\ \E k \in 1..Len(allocation) : allocation[k].percentage.v % 100 # 0

TypesPresent == {TypeOf(portfolio[k]) : k \in 1..Len(portfolio)}

OfType(type) == SelectSeq(portfolio, LAMBDA i : TypeOf(i) = type)

\* C14 (as claimed): the allocation of a list of records has exactly one entry
\* per type present in the list, with the number of the type's records and the sum of their
\* current values, and the entries are in the order of non-increasing value
C14_OneEntryPerTypePresent ==
    (AllocationReturned /\ ~ReadsNullElement(portfolio))
    => /\ {allocation[k].type : k \in 1..Len(allocation)} = TypesPresent
       /\ Len(allocation) = Cardinality(TypesPresent)
       /\ \A k \in 1..Len(allocation) :
             /\ allocation[k].count = Len(OfType(allocation[k].type))
             /\ allocation[k].value
                   = SumCurrent(OfType(allocation[k].type), usdToInrRate, clock)
       /\ \A k \in 1..(Len(allocation) - 1) :
             allocation[k].value.v >= allocation[k + 1].value.v

-----------------------------------------------------------------------------
(* Claims about the maturity notifications *)

\* a run has gone through the whole of the stored list and returned, no other
\* run is in flight, and the device holds what the run scheduled: nothing
\* failed to be read and no other run's cancel-all took any of it away
RanAlone ==
    \E r \in Runs :
       /\ tasks[r].pc = "done"
       /\ tasks[r].read = storage
       /\ \A o \in Runs \ {r} : tasks[o] = NoRun
       /\ BagCardinality(scheduled) = tasks[r].scheduledCount

\* the stored record is of a type that has alerts and matures within the week
DueThisWeek(i) ==
    /\ GetMaturityDate(i) # InvalidDate
    /\ GetMaturityDate(i) >= clock
    /\ GetMaturityDate(i) <= clock + Week

\* the device holds a notification for the record on the day and hour given
NotifiedAt(i, date, hour) ==
    \E n \in BagToSet(scheduled) :
       n.investmentId = IdOf(i) /\ n.date = date /\ n.hour = hour

\* C21: for every investment that matures within the next 7 days, a run
\* leaves a notification on each day from today to the maturity date, at 9 AM
\* and at 4 PM
C21_TwiceADayUntilMaturity ==
    RanAlone =>
       \A k \in 1..Len(storage) :
          DueThisWeek(storage[k]) =>
             \A date \in clock..GetMaturityDate(storage[k]) :
                \A hour \in {9, 16} : NotifiedAt(storage[k], date, hour)

\* the types the alerts are said to cover: deposits, bonds, gold bonds,
\* insurance and every Post Office scheme that has a maturity date
CoveredTypes ==
    {"FIXED_DEPOSIT", "RECURRING_DEPOSIT", "BONDS", "SGB", "INSURANCE",
     "POST_OFFICE_RD", "POST_OFFICE_SCSS", "POST_OFFICE_MIS", "POST_OFFICE_KVP",
     "POST_OFFICE_TD", "POST_OFFICE_NSC", "POST_OFFICE_MSSC"}

\* C22: a run schedules at least one notification for every record of a
\* covered type that matures within the next 7 days
C22_EveryCoveredTypeIsAlerted ==
    RanAlone =>
       \A k \in 1..Len(storage) :
          LET i == storage[k]
          IN  /\ TypeOf(i) \in CoveredTypes
              /\ HasDate(i, "maturityDate")
              /\ i["maturityDate"] >= clock
              /\ i["maturityDate"] <= clock + Week
              => \E n \in BagToSet(scheduled) : n.investmentId = IdOf(i)

\* C23: a notification that says the investment matures in k days is set to
\* the day that is k days before the maturity date, never to a later day
C23_SetToTheDayItNames ==
    \A n \in BagToSet(scheduled) :
       /\ n.date = n.maturityDate - n.days
       /\ n.date <= n.maturityDate

\* no run is between its cancel-all and its return
Quiescent == \A r \in Runs : tasks[r].pc \in {"idle", "done"}

\* C24: after any runs, overlapping or not, the device holds at most one
\* notification for each pair of investment and days until maturity
C24_NoDuplicateNotifications ==
    Quiescent =>
       \A n \in BagToSet(scheduled) :
          Cardinality({m \in BagToSet(scheduled) :
                          m.investmentId = n.investmentId /\ m.days = n.days}) = 1
             /\ CopiesIn(n, scheduled) = 1

-----------------------------------------------------------------------------
(* Claims about the storage *)

\* call c writes and returns in this step, and no other call has been made
ReturnsAlone(c) ==
    /\ tasks[c].pc = "loaded"
    /\ tasks'[c].pc = "done"
    /\ \A o \in Calls \ {c} : tasks[o] = NoCall

\* the record of the call: the one it adds, or the one whose id it was given
TargetId(c) == IF tasks[c].op = "add" THEN GenerateId(c) ELSE tasks[c].id

\* every stored record but the call's own is stored, unchanged, after the step
OthersAreKept(c) ==
    \A k \in 1..Len(storage) :
       IdOf(storage[k]) # TargetId(c)
          => \E j \in 1..Len(storage') : storage'[j] = storage[k]

\* C25: addInvestment and deleteInvestment leave every stored record other
\* than the one they add or delete in storage, unchanged, also when the read
\* of storage fails during the call
C25_AddAndDeleteKeepTheOthers ==
    [][\A c \in Calls :
          ReturnsAlone(c) /\ tasks[c].op \in {"add", "delete"} => OthersAreKept(c)]_vars

\* the record is in storage
IsStored(investment) == \E k \in 1..Len(storage) : storage[k] = investment

\* C26: when two addInvestment calls overlap and both return a record (both
\* having read the stored list and written theirs), storage holds both records
C26_OverlappingAddsBothStored ==
    (\A c \in Calls :
        /\ tasks[c].pc = "done"
        /\ tasks[c].op = "add"
        /\ tasks[c].result # Null
        /\ tasks[c].saved
        /\ Len(tasks[c].investments) > 1)
    => \A c \in Calls : IsStored(tasks[c].result)

\* C27: a call reports success (a record from addInvestment or
\* updateInvestment, true from deleteInvestment) only if its list was written
C27_SuccessMeansWritten ==
    \A c \in Calls :
       tasks[c].pc = "done" /\ (tasks[c].result # Null \/ tasks[c].success)
          => tasks[c].saved

\* C28: updateInvestment alone, for an id that is not stored, returns null
\* and writes nothing; for a stored id it leaves the length and the order of
\* the list and every record but that one as they were
C28_UpdateTouchesOnlyItsRecord ==
    [][\A c \in Calls :
          ReturnsAlone(c) /\ tasks[c].op = "update" =>
             IF FindIndex(storage, tasks[c].id) = 0
             THEN /\ tasks'[c].result = Null
                  /\ ~tasks'[c].saved
                  /\ storage' = storage
             ELSE /\ Len(storage') = Len(storage)
                  /\ \A k \in 1..Len(storage) :
                        IF IdOf(storage[k]) = tasks[c].id
                        THEN IdOf(storage'[k]) = tasks[c].id
                        ELSE storage'[k] = storage[k]]_vars

\* an update of the first of two stored records, written: the record has the
\* new data where it was, the second is where it was
C28_Witness ==
    \E c \in Calls :
       /\ tasks[c].pc = "done"
       /\ tasks[c].op = "update"
       /\ \A o \in Calls \ {c} : tasks[o] = NoCall
       /\ tasks[c].saved
       /\ Len(storage) > 1
       /\ tasks[c].id = 1
       /\ storage[1] = tasks[c].result
       /\ \A f \in DOMAIN tasks[c].updatedData :
             storage[1][f] = tasks[c].updatedData[f]
       /\ storage[1]["updatedAt"] # storage[2]["updatedAt"]

-----------------------------------------------------------------------------
(* Claims about the months and the year of the attribution *)

\* the record bears interest from before the year begins until after it ends
ActiveAllYear(i, y) ==
    /\ TypeOf(i) \in InterestBearing
    /\ HasDate(i, StartField(i))
    /\ HasDate(i, EndField(i))
    /\ i[StartField(i)] <= YearStart(y)
    /\ i[EndField(i)] >= YearEnd(y)

RECURSIVE SumOfMonths(_, _)
SumOfMonths(months, m) ==
    IF m = 0 THEN 0 ELSE months[m].returns.v + SumOfMonths(months, m - 1)

\* C29: for an instrument that is active during the whole of the year, the
\* twelve monthly amounts sum to the yearly amount.  Each amount is rounded
\* down to a whole unit here, so sums that are equal in the program differ by
\* less than one unit per month
C29_MonthsSumToTheYear ==
    /\ pc = "reports"
    /\ Len(portfolio) = 1
    /\ ActiveAllYear(portfolio[1], year)
    => /\ Len(monthly) = 12
       /\ SumOfMonths(monthly, 12) - yearly.v < Len(monthly)
       /\ yearly.v - SumOfMonths(monthly, 12) < Len(monthly)

=============================================================================
